---- MODULE Spec2Model ----
(***************************************************************************)
(* Model of pkg/split (split.go): the chunked-file codec SplitFile /        *)
(* MergeFile with its header codec and chunk discovery, and the generic     *)
(* value splitter SplitData.                                                *)
(*                                                                          *)
(* Bytes and characters are naturals in 0..255; a string, a path and a      *)
(* file's content are sequences of them.  The filesystem is a set of        *)
(* directories and a function from file paths to contents.                  *)
(***************************************************************************)
EXTENDS Integers, Sequences, FiniteSets, TLC

(***************************************************************************)
(* Bounds of the model.                                                     *)
(***************************************************************************)
\* longest source stream, in bytes
MaxLen == 5
\* largest requested chunk count
MaxChunks == 3
\* calls of SplitFile in one behaviour
MaxSplits == 1
\* calls of MergeFile in one behaviour
MaxMerges == 1
\* outside modifications of the directory (byte flips, truncations, removals)
MaxEdits == 1

(***************************************************************************)
(* Program constants (split.go:22-44).                                      *)
(***************************************************************************)
MinChunks == 2
MaxFilenameLength == 46
\* len(metadata.Hash), the size of a SHA-256 digest
HashSize == 32
\* binary.Size(meta): 32 + 4 + 8 + 8 + 46
HeaderSize == HashSize + 4 + 8 + 8 + MaxFilenameLength

(***************************************************************************)
(* Characters and literal strings of the source.                            *)
(***************************************************************************)
ChDot == <<46>>
ChSlash == <<47>>
\* "_"
ChUnderscore == <<95>>
\* ".part"
PartExt == <<46, 112, 97, 114, 116>>
\* "part"
PartWord == <<112, 97, 114, 116>>
\* "tmp"
TmpWord == <<116, 109, 112>>
IsDigit(c) == c >= 48 /\ c <= 57

(***************************************************************************)
(* strings / path/filepath helpers, as the Go library computes them.        *)
(***************************************************************************)
Min(a, b) == IF a < b THEN a ELSE b

\* s[from..to], 1-based and inclusive; empty when from > to
Slice(s, from, to) == [k \in 1..(to - from + 1) |-> s[from + k - 1]]

Take(s, n) == Slice(s, 1, Min(n, Len(s)))
Drop(s, n) == Slice(s, n + 1, Len(s))

HasPrefixAt(s, i, w) ==
    /\ i + Len(w) - 1 <= Len(s)
    /\ \A k \in 1..Len(w) : s[i + k - 1] = w[k]

HasSuffix(s, w) == Len(w) <= Len(s) /\ HasPrefixAt(s, Len(s) - Len(w) + 1, w)

\* strings.TrimSuffix
TrimSuffix(s, w) == IF HasSuffix(s, w) THEN Take(s, Len(s) - Len(w)) ELSE s

\* position of the last c in s, 0 when there is none
LastIndex(s, c) ==
    LET hits == {i \in 1..Len(s) : s[i] = c}
    IN  IF hits = {} THEN 0 ELSE CHOOSE i \in hits : \A j \in hits : j <= i

\* position of the first occurrence of w in s, 0 when there is none
Index(s, w) ==
    LET hits == {i \in 1..Len(s) : HasPrefixAt(s, i, w)}
    IN  IF hits = {} THEN 0 ELSE CHOOSE i \in hits : \A j \in hits : i <= j

\* strings.Replace(s, old, new, 1): the first occurrence only
ReplaceFirst(s, old, new) ==
    LET i == Index(s, old)
    IN  IF i = 0 THEN s
        ELSE Take(s, i - 1) \o new \o Drop(s, i + Len(old) - 1)

\* filepath.Base for a clean path without trailing separator
Base(path) == Drop(path, LastIndex(path, ChSlash[1]))

\* filepath.Dir for a clean path: what precedes the last separator
Dir(path) ==
    LET i == LastIndex(path, ChSlash[1])
    IN  IF i = 0 THEN ChDot ELSE IF i = 1 THEN ChSlash ELSE Take(path, i - 1)

\* filepath.Ext: the suffix of the last element that starts at its last dot
Ext(path) ==
    LET b == Base(path)
        i == LastIndex(b, ChDot[1])
    IN  IF i = 0 THEN <<>> ELSE Drop(b, i - 1)

\* filepath.Join of a clean directory and a file name
Join(dir, name) == IF dir = ChDot THEN name ELSE dir \o ChSlash \o name

\* the decimal digits of n >= 0, most significant first
RECURSIVE Digits(_)
Digits(n) == IF n < 10 THEN <<48 + n>> ELSE Digits(n \div 10) \o <<48 + (n % 10)>>

\* fmt "%04d" for n >= 0: zero-padded to a minimum width of 4
Pad4(n) ==
    LET d == Digits(n)
    IN  [k \in 1..(IF Len(d) < 4 THEN 4 - Len(d) ELSE 0) |-> 48] \o d

\* fmt.Sscanf(s, "%d") on a string of decimal digits
RECURSIVE Atoi(_)
Atoi(s) == IF s = <<>> THEN 0 ELSE 10 * Atoi(Take(s, Len(s) - 1)) + (s[Len(s)] - 48)

Zeros(n) == [k \in 1..n |-> 0]

\* bytes.Trim(b, "\x00"): leading and trailing zero bytes removed
TrimZeros(b) ==
    LET nz == {i \in 1..Len(b) : b[i] # 0}
    IN  IF nz = {} THEN <<>>
        ELSE Slice(b, CHOOSE i \in nz : \A j \in nz : i <= j,
                      CHOOSE i \in nz : \A j \in nz : j <= i)

\* encoding/binary big-endian, an unsigned value n in w bytes
RECURSIVE BigEndian(_, _)
BigEndian(n, w) ==
    IF w = 0 THEN <<>> ELSE BigEndian(n \div 256, w - 1) \o <<n % 256>>

RECURSIVE FromBigEndian(_)
FromBigEndian(b) ==
    IF b = <<>> THEN 0 ELSE 256 * FromBigEndian(Take(b, Len(b) - 1)) + b[Len(b)]

(***************************************************************************)
(* crypto/sha256, treated as collision-free: the digest of a message is an  *)
(* injective 32-byte image of it (its length, its bytes, zero padding).     *)
(* The model keeps every hashed message shorter than HashSize.              *)
(***************************************************************************)
Sum256(msg) == <<Len(msg)>> \o msg \o Zeros(HashSize - 1 - Len(msg))

(***************************************************************************)
(* The metadata record and its fixed big-endian layout                      *)
(* (binary.Write / binary.Read of the struct): Hash, Total, Size, Time,     *)
(* Name.                                                                    *)
(***************************************************************************)
\* copy(meta.Name[:], nameBase): at most MaxFilenameLength bytes, zero padded
NameField(nameBase) ==
    Take(nameBase, MaxFilenameLength)
        \o Zeros(MaxFilenameLength - Min(Len(nameBase), MaxFilenameLength))

\* uint32(chunks): the four low-order bytes of the count (BigEndian(n, 4)
\* keeps exactly those)
Uint32(n) == FromBigEndian(BigEndian(n, 4))

EncodeMeta(meta) ==
    meta.Hash \o BigEndian(meta.Total, 4) \o BigEndian(meta.Size, 8)
        \o BigEndian(meta.Time, 8) \o meta.Name

DecodeMeta(b) ==
    [Hash  |-> Slice(b, 1, HashSize),
     Total |-> FromBigEndian(Slice(b, HashSize + 1, HashSize + 4)),
     Size  |-> FromBigEndian(Slice(b, HashSize + 5, HashSize + 12)),
     Time  |-> FromBigEndian(Slice(b, HashSize + 13, HashSize + 20)),
     Name  |-> Slice(b, HashSize + 21, HeaderSize)]

(***************************************************************************)
(* The filesystem: files \in [paths -> contents].                           *)
(***************************************************************************)
Exists(files, path) == path \in DOMAIN files

\* os.WriteFile / os.Create followed by writes: the file holds exactly data
PutFile(files, path, data) ==
    [p \in DOMAIN files \cup {path} |-> IF p = path THEN data ELSE files[p]]

\* os.Remove
RemoveFile(files, path) == [p \in DOMAIN files \ {path} |-> files[p]]

\* the directory and every ancestor of it (os.MkdirAll)
Ancestors(dir) ==
    {Take(dir, i - 1) : i \in {j \in 2..Len(dir) : dir[j] = ChSlash[1]}} \cup {dir}

\* the paths of the files directly inside dir
FilesIn(files, dir) == {p \in DOMAIN files : Dir(p) = dir}

(***************************************************************************)
(* injectMetadata (split.go:341-391).  The result is the filesystem and the *)
(* error ("nil" for none).                                                  *)
(***************************************************************************)
DstName(chunkPath) ==
    Join(Dir(chunkPath),
         TrimSuffix(Base(chunkPath), Ext(Base(chunkPath))) \o PartExt)

\* an injectMetadata that leaves the temporary file in place
injectMetadataKeepTmp(files, chunkPath, meta) ==
    IF ~Exists(files, chunkPath)
    THEN [fs |-> files, err |-> "failed to open source chunk file"]
    ELSE IF DstName(chunkPath) = chunkPath
    THEN [fs  |-> PutFile(files, chunkPath, EncodeMeta(meta) \o EncodeMeta(meta)),
          err |-> "failed to copy chunk data"]
    ELSE [fs  |-> PutFile(files, DstName(chunkPath),
                          EncodeMeta(meta) \o files[chunkPath]),
          err |-> "nil"]

injectMetadata(files, chunkPath, meta) ==
    IF ~Exists(files, chunkPath)
    THEN [fs |-> files, err |-> "failed to open source chunk file"]
    ELSE IF DstName(chunkPath) = chunkPath
    \* os.Create truncates the file that is also the source: the copy then
    \* reads what it has just written and only ends when a write fails
    THEN [fs  |-> PutFile(files, chunkPath, EncodeMeta(meta) \o EncodeMeta(meta)),
          err |-> "failed to copy chunk data"]
    ELSE [fs  |-> RemoveFile(
                      PutFile(files, DstName(chunkPath),
                              EncodeMeta(meta) \o files[chunkPath]),
                      chunkPath),
          err |-> "nil"]

(***************************************************************************)
(* SplitFile (split.go:65-125).  src is the opened file: its path and its   *)
(* bytes, read from offset 0.                                               *)
(***************************************************************************)
\* a buffer of exactly fileSize / chunks bytes
ChunkSizeExact(fileSize, chunks) == fileSize \div chunks

\* split.go:76
ChunkSize(fileSize, chunks) == fileSize \div chunks + 1

\* split.go:100-106: the path read i is written to
ChunkPath(nameBase, outDir, i) ==
    LET chunkName == TrimSuffix(nameBase, Ext(nameBase)) \o ChUnderscore
                         \o Pad4(i) \o PartExt
        fullPath  == Join(outDir, chunkName)
    IN  IF i = 0 THEN ReplaceFirst(fullPath, PartWord, TmpWord) ELSE fullPath

\* the metadata SplitFile builds before reading (split.go:85-93)
NewMeta(nameBase, fileSize, chunks, now) ==
    [Hash  |-> Zeros(HashSize),
     Total |-> Uint32(chunks),
     Size  |-> fileSize,
     Time  |-> now,
     Name  |-> NameField(nameBase)]

\* fault names the file operation the system fails during a call, if the call
\* gets that far: [at, k, n] is the operation, the read or the chunk it fails
\* at, and the bytes written before it fails
NoFault == [at |-> "none", k |-> 0, n |-> 0]

Hits(fault, at, k) == fault.at = at /\ fault.k = k

\* a read loop that writes the whole buffer, not only the n bytes just read:
\* after a short read the chunk ends with bytes of the read before
RECURSIVE ReadLoopWholeBuffer(_, _, _, _, _, _)
ReadLoopWholeBuffer(c, i, off, files, hashed, firstChunk) ==
    LET n        == Min(c.chunkSize, Len(c.data) - off)
        buf      == Slice(c.data, off + 1, off + n)
        stale    == IF off = 0 THEN Zeros(c.chunkSize - n)
                    ELSE Slice(c.data, off - c.chunkSize + n + 1, off)
        fullPath == ChunkPath(c.nameBase, c.outDir, i)
    IN  IF n > 0
        THEN IF Dir(fullPath) \notin c.dirs
             THEN [fs |-> files, err |-> "failed to write chunk file"]
             ELSE ReadLoopWholeBuffer(c, i + 1, off + n,
                                      PutFile(files, fullPath, buf \o stale),
                                      hashed \o buf,
                                      IF i = 0 THEN fullPath ELSE firstChunk)
        ELSE injectMetadata(files, firstChunk,
                            [c.meta EXCEPT !.Hash = Sum256(hashed)])

\* a read loop whose hash covers the latest read only
RECURSIVE ReadLoopHashLast(_, _, _, _, _, _)
ReadLoopHashLast(c, i, off, files, hashed, firstChunk) ==
    LET n        == Min(c.chunkSize, Len(c.data) - off)
        buf      == Slice(c.data, off + 1, off + n)
        fullPath == ChunkPath(c.nameBase, c.outDir, i)
    IN  IF n > 0
        THEN IF Dir(fullPath) \notin c.dirs
             THEN [fs |-> files, err |-> "failed to write chunk file"]
             ELSE ReadLoopHashLast(c, i + 1, off + n, PutFile(files, fullPath, buf),
                                   buf,
                                   IF i = 0 THEN fullPath ELSE firstChunk)
        ELSE injectMetadata(files, firstChunk,
                            [c.meta EXCEPT !.Hash = Sum256(hashed)])

\* a read loop that embeds the header in what it has written when a read or a
\* write fails
RECURSIVE ReadLoopEmbedOnError(_, _, _, _, _, _)
ReadLoopEmbedOnError(c, i, off, files, hashed, firstChunk) ==
    LET n        == Min(c.chunkSize, Len(c.data) - off)
        buf      == Slice(c.data, off + 1, off + n)
        fullPath == ChunkPath(c.nameBase, c.outDir, i)
        embedded == injectMetadata(files, firstChunk,
                                   [c.meta EXCEPT !.Hash = Sum256(hashed)])
    IN  IF Hits(c.fault, "kill", i)
        THEN [fs |-> files, err |-> "killed"]
        ELSE IF Hits(c.fault, "read", i)
        THEN [fs |-> embedded.fs, err |-> "error reading file"]
        ELSE IF n > 0
        THEN IF Dir(fullPath) \notin c.dirs \/ Hits(c.fault, "create", i)
             THEN [fs |-> embedded.fs, err |-> "failed to write chunk file"]
             ELSE IF Hits(c.fault, "write", i)
             THEN [fs  |-> embedded.fs, err |-> "failed to write chunk file"]
             ELSE ReadLoopEmbedOnError(c, i + 1, off + n,
                                       PutFile(files, fullPath, buf),
                                       hashed \o buf,
                                       IF i = 0 THEN fullPath ELSE firstChunk)
        ELSE embedded

\* the read loop (split.go:97-124), from read i at offset off; hashed is the
\* sequence of bytes written to the hash so far.  The faults of a split:
\* "kill" ends the process before read i is issued, "read" fails read i,
\* "create" fails os.WriteFile of read i before the file exists and "write"
\* after it has written fault.n bytes
RECURSIVE ReadLoop(_, _, _, _, _, _)
ReadLoop(c, i, off, files, hashed, firstChunk) ==
    LET n        == Min(c.chunkSize, Len(c.data) - off)
        buf      == Slice(c.data, off + 1, off + n)
        fullPath == ChunkPath(c.nameBase, c.outDir, i)
    IN  IF Hits(c.fault, "kill", i)
        THEN [fs |-> files, err |-> "killed"]
        ELSE IF Hits(c.fault, "read", i)
        THEN [fs |-> files, err |-> "error reading file"]
        ELSE IF n > 0
        THEN IF Dir(fullPath) \notin c.dirs \/ Hits(c.fault, "create", i)
             THEN [fs |-> files, err |-> "failed to write chunk file"]
             ELSE IF Hits(c.fault, "write", i)
             THEN [fs  |-> PutFile(files, fullPath, Take(buf, c.fault.n)),
                   err |-> "failed to write chunk file"]
             ELSE ReadLoop(c, i + 1, off + n, PutFile(files, fullPath, buf),
                           hashed \o buf,
                           IF i = 0 THEN fullPath ELSE firstChunk)
        \* n = 0 with io.EOF
        ELSE injectMetadata(files, firstChunk,
                            [c.meta EXCEPT !.Hash = Sum256(hashed)])

\* a SplitFile that creates the directory before it validates the count
SplitFileMkdirFirst(ds, files, src, outDir, chunks, now, fault) ==
    IF chunks < MinChunks
    THEN [dirs |-> ds \cup Ancestors(outDir), fs |-> files,
          err |-> "chunks must be at least 2"]
    ELSE LET fileSize == Len(src.data)
             nameBase == Base(src.name)
             made     == ds \cup Ancestors(outDir)
             r == ReadLoop([chunkSize |-> ChunkSize(fileSize, chunks),
                            data      |-> src.data,
                            nameBase  |-> nameBase,
                            outDir    |-> outDir,
                            dirs      |-> made,
                            fault     |-> fault,
                            meta      |-> NewMeta(nameBase, fileSize, chunks, now)],
                           0, 0, files, <<>>, <<>>)
         IN  [dirs |-> made, fs |-> r.fs, err |-> r.err]

\* SplitFile (split.go:65-125); fault as in ReadLoop
SplitFile(ds, files, src, outDir, chunks, now, fault) ==
    IF chunks < MinChunks
    THEN [dirs |-> ds, fs |-> files, err |-> "chunks must be at least 2"]
    ELSE LET fileSize == Len(src.data)
             nameBase == Base(src.name)
             made     == ds \cup Ancestors(outDir)
             r == ReadLoop([chunkSize |-> ChunkSize(fileSize, chunks),
                            data      |-> src.data,
                            nameBase  |-> nameBase,
                            outDir    |-> outDir,
                            dirs      |-> made,
                            fault     |-> fault,
                            meta      |-> NewMeta(nameBase, fileSize, chunks, now)],
                           0, 0, files, <<>>, <<>>)
         IN  [dirs |-> made, fs |-> r.fs, err |-> r.err]

(***************************************************************************)
(* checkFiles (split.go:415-453).                                           *)
(***************************************************************************)
\* byte-wise string order, as Go compares strings
StrLess(x, y) ==
    LET diff == {i \in 1..Min(Len(x), Len(y)) : x[i] # y[i]}
    IN  IF diff = {} THEN Len(x) < Len(y)
        ELSE LET i == CHOOSE i \in diff : \A j \in diff : i <= j
             IN  x[i] < y[i]

\* insertion sort, which is what Go's sort runs on slices of at most 12
\* elements: each element moves left while it is less than its neighbour
RECURSIVE InsertByName(_, _)
InsertByName(sorted, x) ==
    IF sorted # <<>> /\ StrLess(x, sorted[Len(sorted)])
    THEN InsertByName(Take(sorted, Len(sorted) - 1), x) \o <<sorted[Len(sorted)]>>
    ELSE Append(sorted, x)

RECURSIVE SortByName(_)
SortByName(seq) ==
    IF seq = <<>> THEN <<>>
    ELSE InsertByName(SortByName(Take(seq, Len(seq) - 1)), seq[Len(seq)])

\* os.ReadDir: the entries of dir, which the library returns sorted by file
\* name whatever order the system enumerates them in (native)
ReadDir(native) == SortByName(native)

\* a pattern that takes the .tmp extension as well
MatchesChunkOrTmp(name) ==
    LET stem == TrimSuffix(name, Ext(name))
    IN  /\ Len(stem) >= 5
        /\ HasSuffix(name, PartExt) \/ HasSuffix(name, ChDot \o TmpWord)
        /\ \A k \in (Len(stem) - 3)..Len(stem) : IsDigit(stem[k])
        /\ stem[Len(stem) - 4] = ChUnderscore[1]

\* regexp `_(\d{4})\.part$` on a file name
MatchesChunk(name) ==
    /\ Len(name) >= 10
    /\ HasSuffix(name, PartExt)
    /\ \A k \in (Len(name) - 8)..(Len(name) - 5) : IsDigit(name[k])
    /\ name[Len(name) - 9] = ChUnderscore[1]

\* the captured group, parsed by Sscanf "%d"
ChunkIndex(name) == Atoi(Slice(name, Len(name) - 8, Len(name) - 5))

\* split.go:444
ParsedChunk(path) ==
    [name  |-> path,
     index |-> ChunkIndex(Base(path)),
     first |-> ChunkIndex(Base(path)) = 0]

\* sort.Slice(chunks, index <) (split.go:448-450)
RECURSIVE InsertByIndex(_, _)
InsertByIndex(sorted, x) ==
    IF sorted # <<>> /\ x.index < sorted[Len(sorted)].index
    THEN InsertByIndex(Take(sorted, Len(sorted) - 1), x) \o <<sorted[Len(sorted)]>>
    ELSE Append(sorted, x)

\* the chunks left in the order they were found in
SortByIndexNone(seq) == seq

RECURSIVE SortByIndex(_)
SortByIndex(seq) ==
    IF seq = <<>> THEN <<>>
    ELSE InsertByIndex(SortByIndex(Take(seq, Len(seq) - 1)), seq[Len(seq)])

\* the loop of split.go:425-445 over the entries, in their order
RECURSIVE ParseEntries(_)
ParseEntries(entries) ==
    IF entries = <<>> THEN <<>>
    ELSE IF MatchesChunk(Base(entries[1]))
         THEN <<ParsedChunk(entries[1])>> \o ParseEntries(Tail(entries))
         ELSE ParseEntries(Tail(entries))

\* native: the paths of the files of dir in the order the system lists them
checkFiles(ds, dir, native) ==
    IF dir \notin ds
    THEN [chunks |-> <<>>, err |-> "failed to read directory"]
    ELSE [chunks |-> SortByIndex(ParseEntries(ReadDir(native))), err |-> "nil"]

\* a decode that reads a short file as if zero bytes followed it
extractMetadataPadded(files, filePath) ==
    IF ~Exists(files, filePath)
    THEN [meta |-> NewMeta(<<>>, 0, 0, 0),
          err  |-> "failed to open file for metadata extraction"]
    ELSE [meta |-> DecodeMeta(Take(files[filePath] \o Zeros(HeaderSize), HeaderSize)),
          err  |-> "nil"]

(***************************************************************************)
(* extractMetadata (split.go:395-411)                                       *)
(***************************************************************************)
extractMetadata(files, filePath) ==
    IF ~Exists(files, filePath)
    THEN [meta |-> NewMeta(<<>>, 0, 0, 0),
          err  |-> "failed to open file for metadata extraction"]
    ELSE IF Len(files[filePath]) < HeaderSize
    THEN [meta |-> NewMeta(<<>>, 0, 0, 0), err |-> "failed to read metadata"]
    ELSE [meta |-> DecodeMeta(Take(files[filePath], HeaderSize)), err |-> "nil"]

(***************************************************************************)
(* MergeFile (split.go:136-229).  fault names the file operation the system *)
(* fails, if the call gets that far: [at, k, n] is the operation, the       *)
(* position in the chunk list it fails at, and, for a copy, the bytes       *)
(* written before it fails.                                                 *)
(***************************************************************************)

\* split.go:152-162: the position of the first descriptor with first set, or 0
FirstChunk(chunks) ==
    LET hits == {k \in 1..Len(chunks) : chunks[k].first}
    IN  IF hits = {} THEN 0 ELSE CHOOSE k \in hits : \A j \in hits : k <= j

\* the name field used as it is, padding included
OutputFileNameRaw(meta) == meta.Name

\* split.go:169
OutputFileName(meta) == TrimZeros(meta.Name)

\* the bytes io.Copy reads from chunk k: the whole file, or for a first chunk
\* what follows the seek past the header (split.go:193-200)
ChunkData(files, chunk) ==
    IF chunk.first THEN Drop(files[chunk.name], HeaderSize) ELSE files[chunk.name]

\* a copy loop that takes the chunks from the last to the first
RECURSIVE CopyLoopDescending(_, _, _, _, _, _)
CopyLoopDescending(chunks, outPath, fault, k, files, hashed) ==
    IF k > Len(chunks)
    THEN [fs |-> files, hashed |-> hashed, err |-> "nil", open |-> {}]
    ELSE LET chunk == chunks[Len(chunks) + 1 - k]
         IN  IF Hits(fault, "open", k) \/ ~Exists(files, chunk.name)
             THEN [fs |-> files, hashed |-> hashed,
                   err |-> "failed to open chunk file", open |-> {}]
             ELSE IF Hits(fault, "copy", k) \/ Hits(fault, "close", k)
                         \/ (chunk.first /\ Hits(fault, "seek", k))
             THEN [fs |-> files, hashed |-> hashed,
                   err |-> "failed to copy chunk data", open |-> {}]
             ELSE CopyLoopDescending(
                      chunks, outPath, fault, k + 1,
                      PutFile(files, outPath,
                              files[outPath] \o ChunkData(files, chunk)),
                      hashed \o ChunkData(files, chunk))

\* split.go:186-212, from chunk k; hashed is what the TeeReader has fed the
\* hash, open the chunk files whose handle is open when the loop is left:
\* the return after a failed seek (split.go:194-196) does not close f
RECURSIVE CopyLoop(_, _, _, _, _, _)
CopyLoop(chunks, outPath, fault, k, files, hashed) ==
    IF k > Len(chunks)
    THEN [fs |-> files, hashed |-> hashed, err |-> "nil", open |-> {}]
    ELSE IF Hits(fault, "open", k) \/ ~Exists(files, chunks[k].name)
    THEN [fs |-> files, hashed |-> hashed, err |-> "failed to open chunk file",
          open |-> {}]
    ELSE IF chunks[k].first /\ Hits(fault, "seek", k)
    THEN [fs |-> files, hashed |-> hashed, err |-> "failed to seek past metadata",
          open |-> {chunks[k].name}]
    ELSE LET data == ChunkData(files, chunks[k])
         IN  IF Hits(fault, "copy", k)
             THEN [fs     |-> PutFile(files, outPath,
                                      files[outPath] \o Take(data, fault.n)),
                   hashed |-> hashed \o Take(data, fault.n),
                   err    |-> "failed to copy chunk data",
                   open   |-> {}]
             ELSE IF Hits(fault, "close", k)
             THEN [fs     |-> PutFile(files, outPath, files[outPath] \o data),
                   hashed |-> hashed \o data,
                   err    |-> "failed to close chunk file",
                   open   |-> {}]
             ELSE CopyLoop(chunks, outPath, fault, k + 1,
                           PutFile(files, outPath, files[outPath] \o data),
                           hashed \o data)

\* a comparison of the digests' first byte only
HashMatchesFirstByte(hashed, meta) == Sum256(hashed)[1] = meta.Hash[1]

\* split.go:215
HashMatches(hashed, meta) == Sum256(hashed) = meta.Hash

\* a removal loop that gives up at the first removal that fails
RECURSIVE RemoveChunksStop(_, _, _, _)
RemoveChunksStop(chunks, fault, k, files) ==
    IF k > Len(chunks) \/ Hits(fault, "remove", k) THEN files
    ELSE RemoveChunksStop(chunks, fault, k + 1, RemoveFile(files, chunks[k].name))

\* split.go:220-224: every chunk is removed, a failing removal is only reported
RECURSIVE RemoveChunks(_, _, _, _)
RemoveChunks(chunks, fault, k, files) ==
    IF k > Len(chunks) THEN files
    ELSE RemoveChunks(chunks, fault, k + 1,
                      IF Hits(fault, "remove", k) THEN files
                      ELSE RemoveFile(files, chunks[k].name))

\* a merge that removes the chunk files before it verifies the hash
MergeChunksEager(files, inDir, chunks, meta, fault) ==
    LET outPath == Join(inDir, OutputFileName(meta))
    IN  IF fault.at = "create" \/ OutputFileName(meta) = <<>>
        THEN [fs |-> files, err |-> "failed to create output file", out |-> <<>>,
              open |-> {}]
        ELSE LET c == CopyLoop(chunks, outPath, fault, 1,
                               PutFile(files, outPath, <<>>), <<>>)
             IN  IF c.err # "nil"
                 THEN [fs |-> c.fs, err |-> c.err, out |-> outPath,
                       open |-> c.open]
                 ELSE [fs  |-> RemoveChunks(chunks, fault, 1, c.fs),
                       err |-> IF HashMatches(c.hashed, meta) THEN "nil"
                               ELSE "hash mismatch: file not reconstructed properly",
                       out |-> outPath,
                       open |-> {}]

\* split.go:168-229, once the metadata is known
MergeChunks(files, inDir, chunks, meta, fault) ==
    LET outPath == Join(inDir, OutputFileName(meta))
    IN  IF fault.at = "create" \/ OutputFileName(meta) = <<>>
        THEN [fs |-> files, err |-> "failed to create output file", out |-> <<>>,
              open |-> {}]
        ELSE LET c == CopyLoop(chunks, outPath, fault, 1,
                               PutFile(files, outPath, <<>>), <<>>)
             IN  IF c.err # "nil"
                 THEN [fs |-> c.fs, err |-> c.err, out |-> outPath,
                       open |-> c.open]
                 ELSE IF ~HashMatches(c.hashed, meta)
                 THEN [fs  |-> c.fs,
                       err |-> "hash mismatch: file not reconstructed properly",
                       out |-> outPath,
                       open |-> {}]
                 ELSE [fs  |-> RemoveChunks(chunks, fault, 1, c.fs),
                       err |-> "nil",
                       out |-> outPath,
                       open |-> {}]

MergeFile(ds, files, inDir, native, fault) ==
    LET found == checkFiles(ds, inDir, native)
        chunks == found.chunks
        quit(e) == [fs |-> files, err |-> e, out |-> <<>>, chunks |-> chunks,
                    open |-> {}]
    IN  IF found.err # "nil" \/ fault.at = "readdir"
        THEN [fs |-> files, err |-> "failed to check chunk files", out |-> <<>>,
              chunks |-> <<>>, open |-> {}]
        ELSE IF Len(chunks) = 0
        THEN quit("no chunk files found in the specified directory")
        ELSE IF FirstChunk(chunks) = 0
        THEN quit("first chunk (index 0) not found")
        ELSE LET x == extractMetadata(files, chunks[FirstChunk(chunks)].name)
             IN  IF x.err # "nil" \/ fault.at = "extract"
                 THEN quit("failed to extract metadata")
                 ELSE LET m == MergeChunks(files, inDir, chunks, x.meta, fault)
                      IN  [fs |-> m.fs, err |-> m.err, out |-> m.out,
                           chunks |-> chunks, open |-> m.open]

(***************************************************************************)
(* SplitData (split.go:240-288).  A value is nil, a value gob cannot        *)
(* encode, or a byte string; an element of the caller's slice is unset      *)
(* (nil) or holds a byte range.                                             *)
(***************************************************************************)
NilElem == [set |-> FALSE, bytes |-> <<>>]
BytesElem(b) == [set |-> TRUE, bytes |-> b]

\* gob's encoding of a byte string: message length, type id, field delta,
\* byte count, bytes
GobEncode(v) == <<Len(v.val) + 3, 10, 0, Len(v.val)>> \o v.val

\* gob's decoding of one message into a *[]byte: the message must be whole,
\* carry the byte-string type id and as many bytes as it announces; what
\* follows the message is not read
GobDecode(b) ==
    IF Len(b) = 0 \/ Len(b) - 1 < b[1] \/ b[1] < 3
    THEN [ok |-> FALSE, val |-> <<>>]
    ELSE LET msg == Slice(b, 2, 1 + b[1])
         IN  IF msg[1] # 10 \/ msg[2] # 0 \/ msg[3] # Len(msg) - 3
             THEN [ok |-> FALSE, val |-> <<>>]
             ELSE [ok |-> TRUE, val |-> Slice(msg, 4, 3 + msg[3])]

\* a part size that is left at 0 when there are more chunks than bytes
PartSizeNoMin(dataLength, chunks) == dataLength \div chunks

\* split.go:262-267
PartSize(dataLength, chunks) ==
    IF dataLength \div chunks = 0 /\ dataLength > 0 THEN 1
    ELSE dataLength \div chunks

\* a range that ends after partSize bytes even when it is the last one
PartRangeNoRemainder(encodedData, chunks, i) ==
    LET dataLength == Len(encodedData)
        partSize == PartSize(dataLength, chunks)
        start == i * partSize
        end == IF start + partSize > dataLength
               THEN dataLength ELSE start + partSize
    IN  IF start >= dataLength THEN <<>> ELSE Slice(encodedData, start + 1, end)

\* split.go:270-285, the range written to a[i] (i from 0)
PartRange(encodedData, chunks, i) ==
    LET dataLength == Len(encodedData)
        partSize == PartSize(dataLength, chunks)
        start == i * partSize
        end == IF i = chunks - 1 \/ start + partSize > dataLength
               THEN dataLength ELSE start + partSize
    IN  IF start >= dataLength THEN <<>> ELSE Slice(encodedData, start + 1, end)

SplitData(v, slice, chunks) ==
    IF v.kind = "nil" THEN [a |-> slice, err |-> "input is nil"]
    ELSE IF chunks < MinChunks
    THEN [a |-> slice, err |-> "chunks must be at least 2"]
    ELSE IF Len(slice) # chunks
    THEN [a |-> slice, err |-> "output slice length must be chunks"]
    ELSE IF v.kind # "bytes" THEN [a |-> slice, err |-> "gob encode failed"]
    ELSE [a   |-> [i \in 1..chunks |->
                      BytesElem(PartRange(GobEncode(v), chunks, i - 1))],
          err |-> "nil"]

(***************************************************************************)
(* MergeData (split.go:298-329).  target is the pointer the value is        *)
(* decoded into: nil, or a *[]byte.                                         *)
(***************************************************************************)
\* split.go:308-317: the parts appended in slice order
RECURSIVE Combined(_)
Combined(slice) ==
    IF slice = <<>> THEN <<>>
    ELSE Combined(Take(slice, Len(slice) - 1)) \o slice[Len(slice)].bytes

MergeData(slice, target) ==
    IF target = "nil" THEN [v |-> <<>>, err |-> "output is nil"]
    ELSE IF Len(slice) = 0 THEN [v |-> <<>>, err |-> "no chunks provided"]
    ELSE IF \E i \in 1..Len(slice) : ~slice[i].set
    THEN [v |-> <<>>, err |-> "chunk is not []byte"]
    ELSE IF Len(Combined(slice)) = 0 THEN [v |-> <<>>, err |-> "no data to decode"]
    ELSE IF ~GobDecode(Combined(slice)).ok
    THEN [v |-> <<>>, err |-> "gob.Decode failed"]
    ELSE [v |-> GobDecode(Combined(slice)).val, err |-> "nil"]

(***************************************************************************)
(* The state machine.  One directory is split into and merged from; the     *)
(* calls are the package's entry points, and between calls the directory    *)
(* can be changed from outside.                                             *)
(***************************************************************************)
VARIABLES
    dirs,   \* the directories that exist
    fs,     \* the files: path -> content
    a,      \* the caller's output slice of SplitData
    pre,    \* dirs, fs and a as they were when the latest call started
    last,   \* the latest call: its name, its chunks argument, the listing
            \* order and the fault it ran with, its error, and for a merge
            \* the output path and the chunk list
    given,  \* the latest SplitData call on the slice as it is allocated: its
            \* value, its chunks argument and its error
    sess,   \* the latest SplitFile call: its arguments and error, whether the
            \* directory held no file when it started, and what touched the
            \* directory since
    calls,  \* calls made so far, by kind
    procs   \* the MergeFile invocations that run step by step: for each its
            \* position, its locals, and on return its error and the content
            \* it leaves the output file with

vars == <<dirs, fs, a, given, pre, last, sess, calls, procs>>

\* "o", the directory split into and merged from
OutDir == <<111>>

\* a name of n bytes: "aaa...a.txt"
LongName(n) == [k \in 1..(n - 4) |-> 97] \o <<46, 116, 120, 116>>

\* the paths the source file is opened by: "in/t.txt", "u", and a base name
\* of exactly and of one more than MaxFilenameLength bytes
SrcNames ==
    {<<105, 110, 47, 116, 46, 116, 120, 116>>, <<117>>,
     LongName(MaxFilenameLength), LongName(MaxFilenameLength + 1)}

\* the source streams: 1, 2, .., L for every length L
Ramp(length) == [k \in 1..length |-> k]
Contents == {Ramp(length) : length \in 0..MaxLen}

Sources == [name : SrcNames, data : Contents]

\* time.Now().Unix()
Times == {258}

\* the values handed to SplitData: nil, a channel (which gob cannot encode),
\* and the byte strings 1, 2, .., n
Values ==
    {[kind |-> "nil", val |-> <<>>], [kind |-> "chan", val |-> <<>>]}
        \cup {[kind |-> "bytes", val |-> Ramp(n)] : n \in 0..MaxLen}

\* v: the value handed to SplitData, or the one MergeData decoded; open: the
\* files the call has left a handle open on
Call(op, arg, err) ==
    [op |-> op, arg |-> arg, native |-> <<>>, fault |-> NoFault, err |-> err,
     out |-> <<>>, chunks |-> <<>>, v |-> <<>>, open |-> {}]

NoGiven == [v |-> [kind |-> "nil", val |-> <<>>], chunks |-> 0, err |-> "none"]

NoSess ==
    [src |-> [name |-> <<>>, data |-> <<>>], chunks |-> 0, err |-> "nil",
     clean |-> FALSE, edits |-> <<>>, merges |-> 0]

Snapshot == [dirs |-> dirs, fs |-> fs, a |-> a]

\* the invocations of MergeFile that may run at the same time
Procs == {1, 2}

\* an invocation that has not started
Idle ==
    [pc |-> "idle", chunks |-> <<>>, meta |-> NewMeta(<<>>, 0, 0, 0), k |-> 0,
     off |-> 0, hashed |-> <<>>, data |-> <<>>, err |-> "nil", found |-> <<>>]

NoProcs == [p \in Procs |-> Idle]

Init ==
    /\ dirs = {ChDot}
    /\ fs = <<>>
    /\ a = <<>>
    /\ given = NoGiven
    /\ pre = [dirs |-> {ChDot}, fs |-> <<>>, a |-> <<>>]
    /\ last = Call("init", 0, "nil")
    /\ sess = NoSess
    /\ calls = [split |-> 0, merge |-> 0, edit |-> 0, data |-> 0]
    /\ procs = NoProcs

\* the chunk files of the directory
ChunkFiles(files) == {p \in FilesIn(files, OutDir) : MatchesChunk(Base(p))}

\* the paths of a set in ascending order
RECURSIVE Ascending(_)
Ascending(S) ==
    IF S = {} THEN <<>>
    ELSE LET x == CHOOSE x \in S : \A y \in S \ {x} : StrLess(x, y)
         IN  <<x>> \o Ascending(S \ {x})

Reverse(seq) == [k \in DOMAIN seq |-> seq[Len(seq) + 1 - k]]

\* every order of a set
RECURSIVE Perms(_)
Perms(S) ==
    IF S = {} THEN {<<>>}
    ELSE UNION {{<<x>> \o p : p \in Perms(S \ {x})} : x \in S}

\* the orders a merge is run with: the listing ascending and descending
TwoOrders(S) == {Ascending(S), Reverse(Ascending(S))}

\* the faults a merge of n chunk files can meet
Faults(n) ==
    {NoFault}
        \cup {[at |-> at, k |-> 0, n |-> 0] : at \in {"readdir", "extract", "create"}}
        \cup {[at |-> at, k |-> k, n |-> 0] :
                  at \in {"open", "seek", "close", "remove"}, k \in 1..n}
        \cup {[at |-> "copy", k |-> k, n |-> n0] : k \in 1..n, n0 \in 0..1}

SplitFileCall ==
    /\ calls.split < MaxSplits
    /\ \E src \in Sources, chunks \in 1..MaxChunks, now \in Times :
           LET r == SplitFile(dirs, fs, src, OutDir, chunks, now, NoFault)
           IN  /\ dirs' = r.dirs
               /\ fs' = r.fs
               /\ last' = Call("SplitFile", chunks, r.err)
               /\ sess' = [src |-> src, chunks |-> chunks, err |-> r.err,
                           clean |-> FilesIn(fs, OutDir) = {},
                           edits |-> <<>>, merges |-> 0]
    /\ pre' = Snapshot
    /\ calls' = [calls EXCEPT !.split = @ + 1]
    /\ UNCHANGED <<procs, a, given>>

\* a MergeFile call during which the system fails the operation fault names
MergeFileWith(fault) ==
    /\ calls.merge < MaxMerges
    /\ \E native \in TwoOrders(FilesIn(fs, OutDir)) :
           LET r == MergeFile(dirs, fs, OutDir, native, fault)
           IN  /\ fs' = r.fs
               /\ last' = [Call("MergeFile", 0, r.err) EXCEPT
                              !.fault = fault, !.out = r.out, !.chunks = r.chunks,
                              !.open = r.open]
    /\ pre' = Snapshot
    /\ sess' = [sess EXCEPT !.merges = @ + 1]
    /\ calls' = [calls EXCEPT !.merge = @ + 1]
    /\ UNCHANGED <<procs, dirs, a, given>>

\* MergeFile with every file operation succeeding
MergeFileCall == MergeFileWith(NoFault)

\* MergeFile with one file operation failing
MergeFileFaulty ==
    \E fault \in Faults(Cardinality(ChunkFiles(fs))) \ {NoFault} :
        MergeFileWith(fault)

Edited(op) ==
    /\ pre' = Snapshot
    /\ last' = Call(op, 0, "nil")
    /\ sess' = [sess EXCEPT !.edits = Append(@, op)]
    /\ calls' = [calls EXCEPT !.edit = @ + 1]
    /\ UNCHANGED <<procs, dirs, a, given>>

\* from outside: one byte of the non-header region of a chunk file changes
\* (every bit of it flips)
Tamper ==
    /\ calls.edit < MaxEdits
    /\ \E p \in ChunkFiles(fs) :
         \E i \in 1..Len(fs[p]) :
           /\ ParsedChunk(p).first => i > HeaderSize
           /\ fs' = [fs EXCEPT ![p][i] = 255 - @]
    /\ Edited("Tamper")

\* from outside: a first chunk is cut short, inside its header
Truncate ==
    /\ calls.edit < MaxEdits
    /\ \E p \in ChunkFiles(fs), n \in {0, HeaderSize - 1} :
           /\ ParsedChunk(p).first
           /\ Len(fs[p]) > n
           /\ fs' = [fs EXCEPT ![p] = Take(@, n)]
    /\ Edited("Truncate")

\* from outside: a chunk file is deleted
Unlink ==
    /\ calls.edit < MaxEdits
    /\ \E p \in ChunkFiles(fs) : fs' = RemoveFile(fs, p)
    /\ Edited("Unlink")

\* one transfer: a source is split into the fresh directory, the chunk files
\* can be damaged on their way to the merge, and the directory is merged
Next ==
    \/ sess = NoSess /\ SplitFileCall
    \/ MergeFileCall
    \/ sess.merges = 0 /\ Tamper
    \/ sess.merges = 0 /\ Truncate
    \/ sess.merges = 0 /\ Unlink

Spec == Init /\ [][Next]_vars

\* the same, where a file operation can fail during the first merge of an
\* undamaged directory; a retry runs without a failure
NextFaults ==
    \/ Next
    \/ sess.edits = <<>> /\ sess.merges = 0 /\ MergeFileFaulty

SpecFaults == Init /\ [][NextFaults]_vars

(***************************************************************************)
(* The two splitters on their own: SplitFile into the directory, whatever   *)
(* it holds, and SplitData into a slice the caller allocates.  They share   *)
(* no state, so a behaviour follows one of them.                            *)
(***************************************************************************)
\* calls of SplitData in one behaviour
MaxDataCalls == 1
\* largest chunk count handed to SplitData, and longest slice allocated
MaxParts == 6

\* the caller allocates its slice: make([]any, n)
AllocSlice ==
    /\ \E n \in 0..MaxParts : a' = [i \in 1..n |-> NilElem]
    /\ a' # a
    /\ given' = NoGiven
    /\ pre' = Snapshot
    /\ last' = Call("make", 0, "nil")
    /\ UNCHANGED <<procs, dirs, fs, sess, calls>>

SplitDataCall ==
    /\ calls.data < MaxDataCalls
    /\ \E v \in Values, chunks \in 0..MaxParts :
           LET r == SplitData(v, a, chunks)
           IN  /\ a' = r.a
               /\ given' = [v |-> v, chunks |-> chunks, err |-> r.err]
               /\ last' = [Call("SplitData", chunks, r.err) EXCEPT !.v = v.val]
    /\ pre' = Snapshot
    /\ calls' = [calls EXCEPT !.data = @ + 1]
    /\ UNCHANGED <<procs, dirs, fs, sess>>

\* MergeData on the slice as it is
MergeDataCall ==
    /\ \E target \in {"nil", "bytes"} :
           LET r == MergeData(a, target)
           IN  last' = [Call("MergeData", 0, r.err) EXCEPT
                           !.v = r.v, !.out = target]
    /\ pre' = Snapshot
    /\ UNCHANGED <<procs, dirs, fs, a, given, sess, calls>>

NextSplit ==
    \/ calls.data = 0 /\ a = <<>> /\ SplitFileCall
    \/ calls.split = 0 /\ AllocSlice
    \/ calls.split = 0 /\ SplitDataCall
    \/ calls.split = 0 /\ MergeDataCall

SpecSplit == Init /\ [][NextSplit]_vars

(***************************************************************************)
(* Chunk discovery on its own: checkFiles applied to a directory that holds *)
(* any few of a set of file names, listed in any order.                     *)
(***************************************************************************)
\* files in the listed directory
MaxListing == 3

\* "t" and "u"
StemT == <<116>>
StemU == <<117>>

\* t_0000.part, t_0001.part, u_0000.part, u_0002.part, t_10000.part,
\* t_0000.tmp, t.txt
ListedNames ==
    {StemT \o ChUnderscore \o Pad4(0) \o PartExt,
     StemT \o ChUnderscore \o Pad4(1) \o PartExt,
     StemU \o ChUnderscore \o Pad4(0) \o PartExt,
     StemU \o ChUnderscore \o Pad4(2) \o PartExt,
     StemT \o ChUnderscore \o Pad4(10000) \o PartExt,
     StemT \o ChUnderscore \o Pad4(0) \o ChDot \o TmpWord,
     StemT \o <<46, 116, 120, 116>>}

InitDiscover ==
    /\ dirs = {ChDot, OutDir}
    /\ \E names \in SUBSET ListedNames :
           /\ Cardinality(names) <= MaxListing
           /\ fs = [p \in {Join(OutDir, n) : n \in names} |-> <<>>]
    /\ a = <<>>
    /\ given = NoGiven
    /\ pre = [dirs |-> dirs, fs |-> fs, a |-> a]
    /\ last = Call("init", 0, "nil")
    /\ sess = NoSess
    /\ calls = [split |-> 0, merge |-> 0, edit |-> 0, data |-> 0]
    /\ procs = NoProcs

CheckFilesCall ==
    /\ \E native \in Perms(FilesIn(fs, OutDir)) :
           LET r == checkFiles(dirs, OutDir, native)
           IN  last' = [Call("checkFiles", 0, r.err) EXCEPT
                           !.native = native, !.chunks = r.chunks]
    /\ pre' = Snapshot
    /\ UNCHANGED <<procs, dirs, fs, a, given, sess, calls>>

NextDiscover == CheckFilesCall

SpecDiscover == InitDiscover /\ [][NextDiscover]_vars

(***************************************************************************)
(* The QR pipeline (QRFileTransfer, qrfiletransfer.go): FileToQRCodes       *)
(* splits a file under <outDir>/temp and stores each chunk as a QR image in *)
(* <outDir>/qrcodes and as raw bytes in <outDir>/data; QRCodesToFile        *)
(* rebuilds the chunk files under <inDir>/temp and merges them.             *)
(***************************************************************************)
\* "temp", "qrcodes", "data"
TempWord == <<116, 101, 109, 112>>
QrcodesWord == <<113, 114, 99, 111, 100, 101, 115>>
DataWord == <<100, 97, 116, 97>>
\* ".tmp", ".png", ".dat"
TmpExt == ChDot \o TmpWord
PngExt == <<46, 112, 110, 103>>
DatExt == <<46, 100, 97, 116>>

\* the chunk count FileToQRCodes asks for, by file size
NumChunks(fileSize) ==
    IF fileSize <= 1000 THEN 2
    ELSE IF fileSize <= 5000 THEN fileSize \div 1000 + 1
    ELSE IF fileSize <= 20000 THEN fileSize \div 800 + 1
    ELSE fileSize \div 500 + 1

\* filepath.Glob(dir/*ext): the files of dir whose name ends in ext, sorted
Glob(files, dir, ext) ==
    Ascending({p \in FilesIn(files, dir) : HasSuffix(Base(p), ext)})

\* is path the directory dir or something below it
Under(path, dir) == path = dir \/ HasPrefixAt(path, 1, dir \o ChSlash)

\* os.RemoveAll(dir), on the directories and on the files
RemoveAllDirs(ds, dir) == {d \in ds : ~Under(d, dir)}
RemoveAllFiles(files, dir) ==
    [p \in {q \in DOMAIN files : ~Under(q, dir)} |-> files[p]]

\* base64.StdEncoding: the character of a 6-bit value, and the encoding of a
\* byte string, three bytes to four characters, padded with "="
B64Char(i) ==
    IF i < 26 THEN 65 + i
    ELSE IF i < 52 THEN 97 + (i - 26)
    ELSE IF i < 62 THEN 48 + (i - 52)
    ELSE IF i = 62 THEN 43 ELSE 47

RECURSIVE Base64(_)
Base64(b) ==
    IF b = <<>> THEN <<>>
    ELSE IF Len(b) = 1
    THEN <<B64Char(b[1] \div 4), B64Char((b[1] % 4) * 16), 61, 61>>
    ELSE IF Len(b) = 2
    THEN <<B64Char(b[1] \div 4), B64Char((b[1] % 4) * 16 + b[2] \div 16),
           B64Char((b[2] % 16) * 4), 61>>
    ELSE <<B64Char(b[1] \div 4), B64Char((b[1] % 4) * 16 + b[2] \div 16),
           B64Char((b[2] % 16) * 4 + b[3] \div 64), B64Char(b[3] % 64)>>
             \o Base64(Drop(b, 3))

\* "Chunk: <name>\nData: <base64>", the text the QR image carries; the image
\* file is modelled by that text
QrContent(name, chunkData) ==
    <<67, 104, 117, 110, 107, 58, 32>> \o name
        \o <<10, 68, 97, 116, 97, 58, 32>> \o Base64(chunkData)

\* a file name without its extension
Stem(path) == TrimSuffix(Base(path), Ext(Base(path)))

\* the loop over the chunk files: one image and one data file per chunk
RECURSIVE WriteCodes(_, _, _, _)
WriteCodes(chunkFiles, files, qrDir, dataDir) ==
    IF chunkFiles = <<>> THEN files
    ELSE LET chunkPath == chunkFiles[1]
             chunkData == files[chunkPath]
             name      == Stem(chunkPath)
         IN  WriteCodes(Tail(chunkFiles),
                        PutFile(PutFile(files, Join(qrDir, name \o PngExt),
                                        QrContent(name, chunkData)),
                                Join(dataDir, name \o DatExt), chunkData),
                        qrDir, dataDir)

\* what FileToQRCodes does with the result s of its SplitFile call: on an
\* error it returns at once, otherwise it stores the chunks and removes the
\* temp directory
StoreCodes(s, outDir) ==
    LET tempDir == Join(outDir, TempWord)
        qrDir   == Join(outDir, QrcodesWord)
        dataDir == Join(outDir, DataWord)
    IN  IF s.err # "nil"
        THEN [dirs |-> s.dirs, fs |-> s.fs, err |-> "failed to split file"]
        ELSE [dirs |-> RemoveAllDirs(s.dirs \cup Ancestors(qrDir)
                                         \cup Ancestors(dataDir), tempDir),
              fs   |-> RemoveAllFiles(
                           WriteCodes(Glob(s.fs, tempDir, TmpExt)
                                          \o Glob(s.fs, tempDir, PartExt),
                                      s.fs, qrDir, dataDir),
                           tempDir),
              err  |-> "nil"]

\* src is the file at filePath, present says whether it exists
FileToQRCodes(ds, files, src, present, outDir, now) ==
    IF ~present THEN [dirs |-> ds, fs |-> files, err |-> "failed to open file"]
    ELSE StoreCodes(SplitFile(ds \cup Ancestors(Join(outDir, TempWord)), files,
                              src, Join(outDir, TempWord),
                              NumChunks(Len(src.data)), now, NoFault),
                    outDir)

\* the loop over the data files: each becomes <tempDir>/<stem>.part
RECURSIVE WriteChunks(_, _, _)
WriteChunks(dataFiles, files, tempDir) ==
    IF dataFiles = <<>> THEN files
    ELSE WriteChunks(Tail(dataFiles),
                     PutFile(files, Join(tempDir, Stem(dataFiles[1]) \o PartExt),
                             files[dataFiles[1]]),
                     tempDir)

\* the first file of the temp directory that is neither .part nor .tmp
Reconstructed(files, tempDir) ==
    LET found == Ascending({p \in FilesIn(files, tempDir) :
                               /\ ~HasSuffix(Base(p), PartExt)
                               /\ ~HasSuffix(Base(p), TmpExt)})
    IN  IF found = <<>> THEN <<>> ELSE found[1]

\* a return of QRCodesToFile: the deferred os.RemoveAll(tempDir) runs
Return(ds, files, tempDir, err) ==
    [dirs |-> RemoveAllDirs(ds, tempDir),
     fs   |-> RemoveAllFiles(files, tempDir),
     err  |-> err]

\* MergeFile on the temp directory, staged holding the rebuilt chunk files
MergeStaged(ds, staged, tempDir) ==
    MergeFile(ds, staged, tempDir, Ascending(FilesIn(staged, tempDir)), NoFault)

\* what QRCodesToFile does with the result m of its MergeFile call
CopyOut(ds, m, tempDir, outFilePath) ==
    IF m.err # "nil" THEN Return(ds, m.fs, tempDir, "failed to merge chunks")
    ELSE IF Reconstructed(m.fs, tempDir) = <<>>
    THEN Return(ds, m.fs, tempDir, "reconstructed file not found")
    ELSE IF Dir(outFilePath) \notin ds
    THEN Return(ds, m.fs, tempDir, "failed to create output file")
    ELSE Return(ds,
                PutFile(m.fs, outFilePath, m.fs[Reconstructed(m.fs, tempDir)]),
                tempDir, "nil")

QRCodesToFile(ds, files, inDir, outFilePath) ==
    LET tempDir == Join(inDir, TempWord)
        made    == ds \cup Ancestors(tempDir)
        dataFiles == Glob(files, Join(inDir, DataWord), DatExt)
    IN  IF dataFiles = <<>>
        THEN Return(made, files, tempDir, "no data files found")
        ELSE CopyOut(made,
                     MergeStaged(made, WriteChunks(dataFiles, files, tempDir),
                                 tempDir),
                     tempDir, outFilePath)

\* "r" in the working directory, and "x/r" in a directory that does not exist
OutPaths == {<<114>>, <<120, 47, 114>>}

\* FileToQRCodes on a fresh output directory
FileToQRCodesCall ==
    /\ OutDir \notin dirs
    /\ \E src \in Sources, present \in BOOLEAN, now \in Times :
           LET r == FileToQRCodes(dirs, fs, src, present, OutDir, now)
           IN  /\ dirs' = r.dirs
               /\ fs' = r.fs
               /\ last' = Call("FileToQRCodes", NumChunks(Len(src.data)), r.err)
               /\ sess' = [src |-> src, chunks |-> NumChunks(Len(src.data)),
                           err |-> r.err, clean |-> TRUE,
                           edits |-> <<>>, merges |-> 0]
    /\ pre' = Snapshot
    /\ UNCHANGED <<procs, a, given, calls>>

QRCodesToFileCall ==
    /\ calls.merge < MaxMerges
    /\ \E outPath \in OutPaths :
           LET r == QRCodesToFile(dirs, fs, OutDir, outPath)
           IN  /\ dirs' = r.dirs
               /\ fs' = r.fs
               /\ last' = [Call("QRCodesToFile", 0, r.err) EXCEPT !.out = outPath]
    /\ pre' = Snapshot
    /\ sess' = [sess EXCEPT !.merges = @ + 1]
    /\ calls' = [calls EXCEPT !.merge = @ + 1]
    /\ UNCHANGED <<procs, a, given>>

\* from outside: only the QR images are carried over; the data files are
\* deleted, with their directory or without
DropData ==
    /\ calls.edit < MaxEdits
    /\ FilesIn(fs, Join(OutDir, DataWord)) # {}
    /\ \E keepDir \in BOOLEAN :
           /\ fs' = RemoveAllFiles(fs, Join(OutDir, DataWord))
           /\ dirs' = IF keepDir THEN dirs
                      ELSE RemoveAllDirs(dirs, Join(OutDir, DataWord))
    /\ pre' = Snapshot
    /\ last' = Call("DropData", 0, "nil")
    /\ sess' = [sess EXCEPT !.edits = Append(@, "DropData")]
    /\ calls' = [calls EXCEPT !.edit = @ + 1]
    /\ UNCHANGED <<procs, a, given>>

NextQR ==
    \/ FileToQRCodesCall
    \/ QRCodesToFileCall
    \/ DropData

SpecQR == Init /\ [][NextQR]_vars

(***************************************************************************)
(* SplitFile on a fresh filesystem, for sources and output directories      *)
(* whose names do and do not contain "part".                                *)
(***************************************************************************)
\* "t.txt", "part.txt", "apart"
NamedSources ==
    {<<116, 46, 116, 120, 116>>, PartWord \o <<46, 116, 120, 116>>,
     <<97>> \o PartWord}

\* "o" and "parts"
OutDirs == {OutDir, PartWord \o <<115>>}

SplitNamedCall ==
    /\ dirs = {ChDot}
    /\ \E name \in NamedSources, data \in Contents, outDir \in OutDirs,
          chunks \in 1..MaxChunks, now \in Times :
           LET src == [name |-> name, data |-> data]
               r   == SplitFile(dirs, fs, src, outDir, chunks, now, NoFault)
           IN  /\ dirs' = r.dirs
               /\ fs' = r.fs
               /\ last' = [Call("SplitFile", chunks, r.err) EXCEPT !.out = outDir]
               /\ sess' = [src |-> src, chunks |-> chunks, err |-> r.err,
                           clean |-> TRUE, edits |-> <<>>, merges |-> 0]
    /\ pre' = Snapshot
    /\ UNCHANGED <<procs, a, given, calls>>

NextNames == SplitNamedCall

SpecNames == Init /\ [][NextNames]_vars

(***************************************************************************)
(* SplitFile and MergeFile with failing file operations: one split, into a  *)
(* fresh directory, that a fault may stop, then merges; a merge meets a      *)
(* fault, and a chunk is tampered with, only after a split that succeeded.   *)
(***************************************************************************)
\* the number of reads of SplitFile that return data
Reads(fileSize, chunks) ==
    (fileSize + ChunkSize(fileSize, chunks) - 1) \div ChunkSize(fileSize, chunks)

\* the faults a split of n data reads can meet; read n is the one that
\* returns io.EOF
SplitFaults(n) ==
    {[at |-> at, k |-> k, n |-> 0] : at \in {"kill", "read"}, k \in 0..n}
        \cup {[at |-> at, k |-> k, n |-> 0] :
                  at \in {"create", "write"}, k \in 0..(n - 1)}

\* SplitFile with one file operation failing, or the process killed
SplitFileFaulty ==
    /\ calls.split < MaxSplits
    /\ \E src \in Sources, chunks \in MinChunks..MaxChunks, now \in Times :
         \E fault \in SplitFaults(Reads(Len(src.data), chunks)) :
           LET r == SplitFile(dirs, fs, src, OutDir, chunks, now, fault)
           IN  /\ dirs' = r.dirs
               /\ fs' = r.fs
               /\ last' = [Call("SplitFile", chunks, r.err) EXCEPT
                              !.fault = fault]
               /\ sess' = [src |-> src, chunks |-> chunks, err |-> r.err,
                           clean |-> FilesIn(fs, OutDir) = {},
                           edits |-> <<>>, merges |-> 0]
    /\ pre' = Snapshot
    /\ calls' = [calls EXCEPT !.split = @ + 1]
    /\ UNCHANGED <<procs, a, given>>

NextCrash ==
    \/ sess = NoSess /\ SplitFileCall
    \/ sess = NoSess /\ SplitFileFaulty
    \/ MergeFileCall
    \/ sess.err = "nil" /\ sess.edits = <<>> /\ sess.merges = 0 /\ MergeFileFaulty
    \/ sess.err = "nil" /\ sess.merges = 0 /\ Tamper

SpecCrash == Init /\ [][NextCrash]_vars

(***************************************************************************)
(* The read command (cmd/root.go:54-190): the frames of the video are the   *)
(* QR images, in their order; a QR image is modelled by the text it carries, *)
(* which is what the QR reader returns for it.                               *)
(***************************************************************************)
\* the 6-bit value of a character of the base64 alphabet, -1 for any other
B64Value(ch) ==
    IF ch >= 65 /\ ch <= 90 THEN ch - 65
    ELSE IF ch >= 97 /\ ch <= 122 THEN ch - 71
    ELSE IF ch >= 48 /\ ch <= 57 THEN ch + 4
    ELSE IF ch = 43 THEN 62
    ELSE IF ch = 47 THEN 63
    ELSE -1

CorruptInput == [ok |-> FALSE, val |-> <<>>]

\* the bytes a decoded group is followed by, when the rest decodes
Followed(bytes, rest) ==
    IF rest.ok THEN [ok |-> TRUE, val |-> bytes \o rest.val] ELSE CorruptInput

\* base64.StdEncoding decoding of a text without line breaks: groups of four
\* characters of the alphabet, the last one padded with "="
RECURSIVE DecodeQuads(_)
DecodeQuads(t) ==
    IF t = <<>> THEN [ok |-> TRUE, val |-> <<>>]
    ELSE IF Len(t) < 4 THEN CorruptInput
    ELSE IF B64Value(t[1]) < 0 \/ B64Value(t[2]) < 0 THEN CorruptInput
    ELSE IF t[3] = 61
    THEN IF t[4] = 61 /\ Len(t) = 4
         THEN [ok  |-> TRUE,
               val |-> <<B64Value(t[1]) * 4 + B64Value(t[2]) \div 16>>]
         ELSE CorruptInput
    ELSE IF B64Value(t[3]) < 0 THEN CorruptInput
    ELSE IF t[4] = 61
    THEN IF Len(t) = 4
         THEN [ok  |-> TRUE,
               val |-> <<B64Value(t[1]) * 4 + B64Value(t[2]) \div 16,
                         (B64Value(t[2]) % 16) * 16 + B64Value(t[3]) \div 4>>]
         ELSE CorruptInput
    ELSE IF B64Value(t[4]) < 0 THEN CorruptInput
    ELSE Followed(<<B64Value(t[1]) * 4 + B64Value(t[2]) \div 16,
                    (B64Value(t[2]) % 16) * 16 + B64Value(t[3]) \div 4,
                    (B64Value(t[3]) % 4) * 64 + B64Value(t[4])>>,
                  DecodeQuads(Drop(t, 4)))

\* base64.StdEncoding.DecodeString: "\r" and "\n" are skipped
Base64Decode(text) ==
    DecodeQuads(SelectSeq(text, LAMBDA ch : ch \notin {10, 13}))

\* cmd/root.go:318-361: the text of the image, base64-decoded as a whole
readQRCodeFromImage(files, imagePath) ==
    IF ~Exists(files, imagePath)
    THEN [data |-> <<>>, err |-> "failed to open image file"]
    ELSE IF ~Base64Decode(files[imagePath]).ok
    THEN [data |-> <<>>, err |-> "failed to decode base64 content"]
    ELSE [data |-> Base64Decode(files[imagePath]).val, err |-> "nil"]

FramesWord == <<102, 114, 97, 109, 101, 115>>
FramePrefix == <<102, 114, 97, 109, 101, 95>>
ChunkPrefix == <<99, 104, 117, 110, 107, 95>>

\* the loop of cmd/root.go:250-279: a frame that cannot be read or repeats
\* the first 20 bytes of an earlier one is skipped, every other frame is
\* stored as chunk_<count so far>.dat
RECURSIVE ReadFrames(_, _, _, _, _)
ReadFrames(frames, files, dataDir, processedFrames, processedChunks) ==
    IF frames = <<>> THEN [fs |-> files, processedFrames |-> processedFrames]
    ELSE IF readQRCodeFromImage(files, frames[1]).err # "nil"
    THEN ReadFrames(Tail(frames), files, dataDir, processedFrames,
                    processedChunks)
    ELSE IF Take(readQRCodeFromImage(files, frames[1]).data, 20)
                \in processedChunks
    THEN ReadFrames(Tail(frames), files, dataDir, processedFrames,
                    processedChunks)
    ELSE ReadFrames(Tail(frames),
                    PutFile(files,
                            Join(dataDir, ChunkPrefix \o Pad4(processedFrames)
                                              \o DatExt),
                            readQRCodeFromImage(files, frames[1]).data),
                    dataDir, processedFrames + 1,
                    processedChunks
                        \cup {Take(readQRCodeFromImage(files, frames[1]).data, 20)})

\* what readQRCodesFromFrames returns after its loop
FramesRead(r) ==
    [fs  |-> r.fs,
     err |-> IF r.processedFrames = 0
             THEN "no valid QR codes found in any frames" ELSE "nil"]

\* cmd/root.go:234-289
readQRCodesFromFrames(files, framesDir, dataDir) ==
    IF Glob(files, framesDir, PngExt) = <<>>
    THEN [fs |-> files, err |-> "no frames found"]
    ELSE FramesRead(ReadFrames(Glob(files, framesDir, PngExt), files, dataDir,
                               0, {}))

\* extractFramesFromVideo: frame k of the video becomes frame_<k>.png
RECURSIVE ExtractFrames(_, _, _, _)
ExtractFrames(video, files, framesDir, k) ==
    IF k > Len(video) THEN files
    ELSE ExtractFrames(video,
                       PutFile(files,
                               Join(framesDir, FramePrefix \o Pad4(k) \o PngExt),
                               video[k]),
                       framesDir, k + 1)

\* the end of the read command: it exits when the frames gave no data,
\* otherwise it calls QRCodesToFile on the temp directory
Reconstruct(ds, r, readTempDir, readOutputFile) ==
    IF r.err # "nil" THEN [dirs |-> ds, fs |-> r.fs, err |-> r.err]
    ELSE QRCodesToFile(ds, r.fs, readTempDir, readOutputFile)

\* the read command on a video of the given frames, with a temp directory
\* of its own
ReadCmd(ds, files, video, readTempDir, readOutputFile) ==
    Reconstruct(ds \cup Ancestors(Dir(readOutputFile))
                   \cup Ancestors(Join(readTempDir, FramesWord))
                   \cup Ancestors(Join(readTempDir, QrcodesWord))
                   \cup Ancestors(Join(readTempDir, DataWord)),
                readQRCodesFromFrames(
                    ExtractFrames(video, files, Join(readTempDir, FramesWord), 1),
                    Join(readTempDir, FramesWord),
                    Join(readTempDir, DataWord)),
                readTempDir, readOutputFile)

\* "v", the temp directory of the read command
ReadTempDir == <<118>>

\* the contents of the files of a list
Contained(files, paths) == [k \in DOMAIN paths |-> files[paths[k]]]

\* frames that do not come from FileToQRCodes: none, or one QR code whose
\* text is the base64 encoding of three bytes
ForeignFrames == {<<>>, <<Base64(<<1, 2, 3>>)>>}

\* the read command on a video made of the QR images of the output
\* directory, in either order, and of the foreign frames
ReadCall ==
    /\ calls.merge < MaxMerges
    /\ FilesIn(fs, Join(OutDir, QrcodesWord)) # {}
    /\ \E outPath \in OutPaths, foreign \in ForeignFrames :
         \E images \in TwoOrders(FilesIn(fs, Join(OutDir, QrcodesWord))) :
           LET r == ReadCmd(dirs, fs, Contained(fs, images) \o foreign,
                            ReadTempDir, outPath)
           IN  /\ dirs' = r.dirs
               /\ fs' = r.fs
               /\ last' = [Call("read", Len(foreign), r.err) EXCEPT
                              !.out = outPath, !.native = images]
    /\ pre' = Snapshot
    /\ sess' = [sess EXCEPT !.merges = @ + 1]
    /\ calls' = [calls EXCEPT !.merge = @ + 1]
    /\ UNCHANGED <<procs, a, given>>

NextRead ==
    \/ FileToQRCodesCall
    \/ ReadCall

SpecRead == Init /\ [][NextRead]_vars

(***************************************************************************)
(* SplitFile into a directory that an earlier SplitFile has left its chunk  *)
(* files in, then MergeFile.                                                 *)
(***************************************************************************)
\* the earlier splits: "in/t.txt" and "u" with the longest stream, in the
\* largest number of chunks
EarlierSources ==
    [name : {<<105, 110, 47, 116, 46, 116, 120, 116>>, <<117>>},
     data : {Ramp(MaxLen)}]

InitReuse ==
    /\ \E src \in EarlierSources, now \in Times :
           LET r == SplitFile({ChDot}, <<>>, src, OutDir, MaxChunks, now, NoFault)
           IN  /\ dirs = r.dirs
               /\ fs = r.fs
    /\ a = <<>>
    /\ given = NoGiven
    /\ pre = [dirs |-> dirs, fs |-> fs, a |-> a]
    /\ last = Call("init", 0, "nil")
    /\ sess = NoSess
    /\ calls = [split |-> 0, merge |-> 0, edit |-> 0, data |-> 0]
    /\ procs = NoProcs

NextReuse ==
    \/ sess = NoSess /\ SplitFileCall
    \/ MergeFileCall

SpecReuse == InitReuse /\ [][NextReuse]_vars

(***************************************************************************)
(* MergeFile run again on the directory a successful MergeFile has left,    *)
(* for sources whose own name may look like a chunk file's.                  *)
(***************************************************************************)
\* "t_0001.part" and "t_0000.part" as names of source files
ChunkLikeNames ==
    {StemT \o ChUnderscore \o Pad4(1) \o PartExt,
     StemT \o ChUnderscore \o Pad4(0) \o PartExt}

\* SplitFile on a source with such a name
SplitChunkNamed ==
    /\ calls.split < MaxSplits
    /\ \E name \in ChunkLikeNames, data \in Contents,
          chunks \in MinChunks..MaxChunks, now \in Times :
           LET src == [name |-> name, data |-> data]
               r   == SplitFile(dirs, fs, src, OutDir, chunks, now, NoFault)
           IN  /\ dirs' = r.dirs
               /\ fs' = r.fs
               /\ last' = Call("SplitFile", chunks, r.err)
               /\ sess' = [src |-> src, chunks |-> chunks, err |-> r.err,
                           clean |-> FilesIn(fs, OutDir) = {},
                           edits |-> <<>>, merges |-> 0]
    /\ pre' = Snapshot
    /\ calls' = [calls EXCEPT !.split = @ + 1]
    /\ UNCHANGED <<procs, a, given>>

\* MergeFile called again right after a MergeFile that returned nil
MergeFileAgain ==
    /\ last.op = "MergeFile" /\ last.err = "nil"
    /\ sess.merges = 1
    /\ \E native \in TwoOrders(FilesIn(fs, OutDir)) :
           LET r == MergeFile(dirs, fs, OutDir, native, NoFault)
           IN  /\ fs' = r.fs
               /\ last' = [Call("MergeFile", 0, r.err) EXCEPT
                              !.out = r.out, !.chunks = r.chunks,
                              !.open = r.open]
    /\ pre' = Snapshot
    /\ sess' = [sess EXCEPT !.merges = @ + 1]
    /\ calls' = [calls EXCEPT !.merge = @ + 1]
    /\ UNCHANGED <<procs, dirs, a, given>>

NextRepeat ==
    \/ sess = NoSess /\ SplitFileCall
    \/ sess = NoSess /\ SplitChunkNamed
    \/ sess.merges = 0 /\ MergeFileCall
    \/ MergeFileAgain

SpecRepeat == Init /\ [][NextRepeat]_vars

(***************************************************************************)
(* Two MergeFile invocations on the same directory, interleaved at the      *)
(* granularity of file operations (split.go:136-229).  Each invocation has  *)
(* its own descriptors: its own offset in the output file, and a chunk file *)
(* it has opened stays readable when the other invocation removes it.       *)
(***************************************************************************)
\* the sources split before the invocations start
RaceSources == [name : {<<117>>}, data : {Ramp(MaxLen - 1), Ramp(MaxLen)}]

\* the directory a successful SplitFile has just left
InitRace ==
    /\ \E src \in RaceSources, chunks \in MinChunks..MaxChunks, now \in Times :
           LET r == SplitFile({ChDot}, <<>>, src, OutDir, chunks, now, NoFault)
           IN  /\ dirs = r.dirs
               /\ fs = r.fs
               /\ last = Call("SplitFile", chunks, r.err)
               /\ sess = [src |-> src, chunks |-> chunks, err |-> r.err,
                          clean |-> TRUE, edits |-> <<>>, merges |-> 0]
    /\ a = <<>>
    /\ given = NoGiven
    /\ pre = [dirs |-> {ChDot}, fs |-> <<>>, a |-> <<>>]
    /\ calls = [split |-> 1, merge |-> 0, edit |-> 0, data |-> 0]
    /\ procs = NoProcs

\* a write of data at offset off of a file: what lies between the end of the
\* file and off reads as zeros
WriteAt(content, off, data) ==
    [i \in 1..(IF Len(content) > off + Len(data) THEN Len(content)
               ELSE off + Len(data)) |->
        IF i > off /\ i <= off + Len(data) THEN data[i - off]
        ELSE IF i <= Len(content) THEN content[i]
        ELSE 0]

\* invocation p returns err; found is the output file as it is then
Returns(p, err, files, outPath) ==
    procs' = [procs EXCEPT ![p].pc = "done", ![p].err = err,
                           ![p].found = IF Exists(files, outPath)
                                        THEN files[outPath] ELSE <<>>]

OutPathOf(p) == Join(OutDir, OutputFileName(procs[p].meta))

\* split.go:137-166: the directory is read and the first chunk looked up
Discover(p) ==
    /\ procs[p].pc = "idle"
    /\ LET found == checkFiles(dirs, OutDir, Ascending(FilesIn(fs, OutDir)))
       IN  IF found.err # "nil"
           THEN Returns(p, "failed to check chunk files", fs, <<>>)
           ELSE IF Len(found.chunks) = 0
           THEN Returns(p, "no chunk files found in the specified directory",
                        fs, <<>>)
           ELSE IF FirstChunk(found.chunks) = 0
           THEN Returns(p, "first chunk (index 0) not found", fs, <<>>)
           ELSE procs' = [procs EXCEPT ![p].pc = "extract",
                                       ![p].chunks = found.chunks]
    /\ UNCHANGED <<dirs, fs, a, given, pre, last, sess, calls>>

\* split.go:147-150: the header of the first chunk is read
Extract(p) ==
    /\ procs[p].pc = "extract"
    /\ LET x == extractMetadata(
                    fs, procs[p].chunks[FirstChunk(procs[p].chunks)].name)
       IN  IF x.err # "nil"
           THEN Returns(p, "failed to extract metadata", fs, <<>>)
           ELSE procs' = [procs EXCEPT ![p].pc = "create", ![p].meta = x.meta]
    /\ UNCHANGED <<dirs, fs, a, given, pre, last, sess, calls>>

\* split.go:168-174: os.Create truncates the output file
Create(p) ==
    /\ procs[p].pc = "create"
    /\ IF OutputFileName(procs[p].meta) = <<>>
       THEN /\ Returns(p, "failed to create output file", fs, <<>>)
            /\ fs' = fs
       ELSE /\ fs' = PutFile(fs, OutPathOf(p), <<>>)
            /\ procs' = [procs EXCEPT ![p].pc = "open", ![p].k = 1,
                                      ![p].off = 0, ![p].hashed = <<>>]
    /\ UNCHANGED <<dirs, a, given, pre, last, sess, calls>>

\* split.go:187-197: chunk k is opened, and sought past its header
Open(p) ==
    /\ procs[p].pc = "open"
    /\ IF ~Exists(fs, procs[p].chunks[procs[p].k].name)
       THEN Returns(p, "failed to open chunk file", fs, OutPathOf(p))
       ELSE procs' = [procs EXCEPT
                         ![p].pc = "copy",
                         ![p].data = ChunkData(fs, procs[p].chunks[procs[p].k])]
    /\ UNCHANGED <<dirs, fs, a, given, pre, last, sess, calls>>

\* the output file after invocation p has written the chunk it holds
Copied(p) == [fs EXCEPT ![OutPathOf(p)] = WriteAt(@, procs[p].off, procs[p].data)]

\* split.go:200-217: chunk k is copied to the output and into the hash;
\* after the last chunk the hashes are compared
Copy(p) ==
    /\ procs[p].pc = "copy"
    /\ fs' = Copied(p)
    /\ IF procs[p].k < Len(procs[p].chunks)
       THEN procs' = [procs EXCEPT ![p].pc = "open", ![p].k = @ + 1,
                                   ![p].off = @ + Len(procs[p].data),
                                   ![p].hashed = @ \o procs[p].data]
       ELSE IF ~HashMatches(procs[p].hashed \o procs[p].data, procs[p].meta)
       THEN Returns(p, "hash mismatch: file not reconstructed properly",
                    Copied(p), OutPathOf(p))
       ELSE procs' = [procs EXCEPT ![p].pc = "remove", ![p].k = 1,
                                   ![p].hashed = @ \o procs[p].data]
    /\ UNCHANGED <<dirs, a, given, pre, last, sess, calls>>

\* split.go:220-228: chunk k is removed; after the last one the call
\* returns nil
Remove(p) ==
    /\ procs[p].pc = "remove"
    /\ fs' = RemoveFile(fs, procs[p].chunks[procs[p].k].name)
    /\ IF procs[p].k < Len(procs[p].chunks)
       THEN procs' = [procs EXCEPT ![p].k = @ + 1]
       ELSE Returns(p, "nil",
                    RemoveFile(fs, procs[p].chunks[procs[p].k].name),
                    OutPathOf(p))
    /\ UNCHANGED <<dirs, a, given, pre, last, sess, calls>>

NextRace ==
    \/ \E p \in Procs : Discover(p)
    \/ \E p \in Procs : Extract(p)
    \/ \E p \in Procs : Create(p)
    \/ \E p \in Procs : Open(p)
    \/ \E p \in Procs : Copy(p)
    \/ \E p \in Procs : Remove(p)

SpecRace == InitRace /\ [][NextRace]_vars

(***************************************************************************)
(* FileToQRCodes called again into the output directory of a successful     *)
(* call, then QRCodesToFile.                                                 *)
(***************************************************************************)
\* the files of the second call: "in/t.txt" and "u", one byte and MaxLen
\* bytes long
AgainSources ==
    [name : {<<105, 110, 47, 116, 46, 116, 120, 116>>, <<117>>},
     data : {Ramp(1), Ramp(MaxLen)}]

FileToQRCodesAgain ==
    /\ last.op = "FileToQRCodes" /\ last.err = "nil"
    /\ sess.clean
    /\ \E src \in AgainSources, now \in Times :
           LET r == FileToQRCodes(dirs, fs, src, TRUE, OutDir, now)
           IN  /\ dirs' = r.dirs
               /\ fs' = r.fs
               /\ last' = Call("FileToQRCodes", NumChunks(Len(src.data)), r.err)
               /\ sess' = [src |-> src, chunks |-> NumChunks(Len(src.data)),
                           err |-> r.err, clean |-> FALSE,
                           edits |-> <<>>, merges |-> 0]
    /\ pre' = Snapshot
    /\ UNCHANGED <<a, given, calls, procs>>

NextQRAgain ==
    \/ FileToQRCodesCall
    \/ FileToQRCodesAgain
    \/ QRCodesToFileCall

SpecQRAgain == Init /\ [][NextQRAgain]_vars

(***************************************************************************)
(* The claims.                                                              *)
(***************************************************************************)
HashMismatch == "hash mismatch: file not reconstructed properly"

\* the latest call is a SplitFile with a valid chunk count into a directory
\* that held no file
SplitIntoEmpty ==
    last.op = "SplitFile" /\ sess.chunks >= MinChunks /\ sess.clean

\* the latest call is the first MergeFile after such a SplitFile, with
\* nothing else touching the directory in between and no fault injected
MergeAfterSplit ==
    /\ last.op = "MergeFile"
    /\ last.fault = NoFault
    /\ sess.chunks >= MinChunks
    /\ sess.clean
    /\ sess.edits = <<>>
    /\ sess.merges = 1

\* C1: round trip.  For every source of length L >= 0 and every chunk count
\* C >= 2, SplitFile into an empty directory returns no error, and the
\* MergeFile that follows returns no error and writes a file that holds
\* exactly the source's bytes.
C1_RoundTrip ==
    /\ SplitIntoEmpty => last.err = "nil"
    /\ MergeAfterSplit =>
           /\ last.err = "nil"
           /\ Exists(fs, last.out)
           /\ fs[last.out] = sess.src.data

\* C2: integrity enforcement.  After a successful SplitFile, once a single
\* byte of the non-header region of a chunk file has been changed, MergeFile
\* does not succeed: it returns the hash-mismatch error (or, when a file
\* operation fails first, that operation's error).
C2_Integrity ==
    (/\ last.op = "MergeFile"
     /\ sess.err = "nil"
     /\ sess.chunks >= MinChunks
     /\ sess.edits = <<"Tamper">>
     /\ sess.merges = 1)
        => /\ last.err # "nil"
           /\ last.fault = NoFault => last.err = HashMismatch

C2_Witness ==
    /\ last.op = "MergeFile"
    /\ last.fault = NoFault
    /\ sess.err = "nil"
    /\ sess.edits = <<"Tamper">>
    /\ Len(last.chunks) >= 2
    /\ last.err = HashMismatch

\* C3: MergeFile removes chunk files only when the hashes are equal.  On
\* every error return each chunk file that existed when the call started
\* still exists with the content it had, and on a hash mismatch the output
\* file is left on disk too.
C3_ErrorKeepsFragments ==
    (last.op = "MergeFile" /\ last.err # "nil")
        => /\ \A p \in ChunkFiles(pre.fs) : Exists(fs, p) /\ fs[p] = pre.fs[p]
           /\ last.err = HashMismatch => Exists(fs, last.out)

C3_Witness ==
    /\ last.op = "MergeFile"
    /\ last.err = HashMismatch
    /\ Cardinality(ChunkFiles(pre.fs)) >= 2
    /\ ChunkFiles(fs) = ChunkFiles(pre.fs)
    /\ Exists(fs, last.out)

\* C4: a successful SplitFile with requested count C never produces fewer
\* than C chunk files.
C4_AtLeastRequested ==
    (SplitIntoEmpty /\ last.err = "nil")
        => Cardinality(ChunkFiles(fs)) >= sess.chunks

CeilDiv(x, y) == (x + y - 1) \div y

\* <OutDir>/<base without extension>_<i, four digits>.part
ExpectedChunk(nameBase, i) ==
    OutDir \o ChSlash \o TrimSuffix(nameBase, Ext(nameBase)) \o ChUnderscore
        \o Pad4(i) \o PartExt

\* C5: SplitFile on a stream of length L with requested count C produces
\* exactly n = ceil(L / (floor(L / C) + 1)) chunk files, those with the
\* ordinals 0 .. n-1.
C5_FragmentCount ==
    SplitIntoEmpty =>
        LET L == Len(sess.src.data)
            n == CeilDiv(L, L \div sess.chunks + 1)
        IN  ChunkFiles(fs) =
                {ExpectedChunk(Base(sess.src.name), i) : i \in 0..(n - 1)}

C5_Witness ==
    /\ SplitIntoEmpty
    /\ last.err = "nil"
    /\ Len(sess.src.data) > 0
    /\ Len(sess.src.data) % sess.chunks = 0
    /\ Cardinality(ChunkFiles(fs)) = 2

\* C6: the Total field of the header of chunk 0 equals the number of chunk
\* files the SplitFile call wrote.
C6_TotalIsCount ==
    (SplitIntoEmpty /\ last.err = "nil")
        => \A p \in ChunkFiles(fs) :
               ParsedChunk(p).first =>
                   DecodeMeta(fs[p]).Total = Cardinality(ChunkFiles(fs))

\* C7: a chunk count below 2 is rejected without side effects.  SplitFile
\* then returns an error and creates neither the directory nor a file;
\* SplitData then returns an error, and on every error return of SplitData
\* the caller's slice is as it was.
C7_MinChunks ==
    /\ (last.op = "SplitFile" /\ last.arg < MinChunks)
           => last.err # "nil" /\ dirs = pre.dirs /\ fs = pre.fs
    /\ (last.op = "SplitData" /\ last.arg < MinChunks) => last.err # "nil"
    /\ (last.op = "SplitData" /\ last.err # "nil") => a = pre.a

C7_Witness ==
    /\ last.op = "SplitData"
    /\ last.arg < MinChunks
    /\ last.err = "chunks must be at least 2"
    /\ Len(a) > 0
    /\ a = pre.a

IsAscending(chunks) ==
    \A i \in 1..(Len(chunks) - 1) : chunks[i].index <= chunks[i + 1].index

\* C8: discovery is independent of the listing order.  Whatever order the
\* directory's files are enumerated in, checkFiles returns the list it
\* returns for the ascending listing; the list holds the chunk files and is
\* in ascending order of index.
C8_OrderIndependent ==
    last.op = "checkFiles" =>
        /\ last.chunks =
               checkFiles(pre.dirs, OutDir, Ascending(FilesIn(pre.fs, OutDir))).chunks
        /\ {c.name : c \in {last.chunks[k] : k \in DOMAIN last.chunks}}
               = ChunkFiles(pre.fs)
        /\ IsAscending(last.chunks)

C8_Witness ==
    /\ last.op = "checkFiles"
    /\ last.native # Ascending(FilesIn(pre.fs, OutDir))
    /\ Len(last.chunks) = 3
    /\ last.chunks[1].index = last.chunks[2].index
    /\ StrLess(last.chunks[3].name, last.chunks[2].name)

\* C9: MergeFile returns an error and creates no output file when the
\* directory holds no chunk file, when no chunk file has index 0, or when
\* the index-0 chunk file holds fewer than 98 bytes.
C9_NoOutputOnDiscoveryError ==
    (/\ last.op = "MergeFile"
     /\ \/ ChunkFiles(pre.fs) = {}
        \/ \A p \in ChunkFiles(pre.fs) : ~ParsedChunk(p).first
        \/ \A p \in ChunkFiles(pre.fs) :
               ParsedChunk(p).first => Len(pre.fs[p]) < HeaderSize)
        => /\ last.err # "nil"
           /\ last.out = <<>>
           /\ fs = pre.fs

C9_Witness ==
    /\ last.op = "MergeFile"
    /\ last.fault = NoFault
    /\ \E p \in ChunkFiles(pre.fs) :
           ParsedChunk(p).first /\ Len(pre.fs[p]) = HeaderSize - 1
    /\ last.err = "failed to extract metadata"
    /\ fs = pre.fs

\* C10: MergeFile writes its output to <dir>/<name>, where name is the
\* source's base name cut to its first 46 bytes, without zero padding; a base
\* name of at most 46 bytes is reproduced exactly.
C10_OutputName ==
    (/\ last.op = "MergeFile"
     /\ last.out # <<>>
     /\ sess.clean
     /\ sess.err = "nil")
        => LET nameBase == Base(sess.src.name)
           IN  /\ Exists(fs, last.out)
               /\ last.out = OutDir \o ChSlash \o Take(nameBase, MaxFilenameLength)
               /\ Len(nameBase) <= MaxFilenameLength => Base(last.out) = nameBase

C10_Witness ==
    /\ last.op = "MergeFile"
    /\ last.err = "nil"
    /\ Len(Base(sess.src.name)) = MaxFilenameLength + 1
    /\ Len(Base(last.out)) = MaxFilenameLength

\* C11: the partition rule of SplitData.  For the encoded buffer of n bytes
\* and C >= 2 chunks, with partSize = floor(n / C), or 1 when that is 0 and
\* n > 0, range i starts at i * partSize; a range that starts at or beyond n
\* is empty, the last range runs to the end of the buffer, and every other
\* range has partSize bytes.
C11_PartitionRule ==
    (last.op = "SplitData" /\ last.err = "nil") =>
        LET n  == Len(GobEncode(given.v))
            C  == last.arg
            ps == IF n \div C = 0 /\ n > 0 THEN 1 ELSE n \div C
        IN  /\ C >= MinChunks
            /\ Len(a) = C
            /\ \A i \in 0..(C - 1) :
                   /\ a[i + 1].set
                   /\ Len(a[i + 1].bytes) =
                          IF i * ps >= n THEN 0
                          ELSE IF i = C - 1 THEN n - i * ps
                          ELSE ps

\* n = 7 and C = 3 give the sizes 2, 2, 3
C11_Witness ==
    /\ last.op = "SplitData"
    /\ last.err = "nil"
    /\ last.arg = 3
    /\ Len(GobEncode(given.v)) = 7
    /\ <<Len(a[1].bytes), Len(a[2].bytes), Len(a[3].bytes)>> = <<2, 2, 3>>

\* C12: the generic round trip.  The ranges a successful SplitData leaves in
\* the slice, concatenated in index order, are the encoded buffer, and
\* MergeData on that slice returns no error and decodes the value that was
\* split.
C12_DataRoundTrip ==
    /\ (last.op = "SplitData" /\ last.err = "nil")
           => Combined(a) = GobEncode(given.v)
    /\ (last.op = "MergeData" /\ last.out = "bytes" /\ given.err = "nil")
           => last.err = "nil" /\ last.v = given.v.val

C12_Witness ==
    /\ last.op = "MergeData"
    /\ given.err = "nil"
    /\ given.chunks = 3
    /\ Len(given.v.val) = 3
    /\ last.err = "nil"
    /\ last.v = given.v.val

\* C13: a chunk file that cannot be removed does not fail the merge.  When
\* the removal of one chunk file fails after the hashes matched, MergeFile
\* returns no error, the output file holds the whole source, and every other
\* chunk file is removed.
C13_RemoveFailureIsNotAnError ==
    (/\ last.op = "MergeFile"
     /\ last.fault.at = "remove"
     /\ sess.err = "nil"
     /\ sess.chunks >= MinChunks
     /\ sess.edits = <<>>
     /\ sess.merges = 1)
        => /\ last.err = "nil"
           /\ Exists(fs, last.out)
           /\ fs[last.out] = sess.src.data
           /\ \A k \in 1..Len(last.chunks) :
                  Exists(fs, last.chunks[k].name) <=> k = last.fault.k

C13_Witness ==
    /\ last.op = "MergeFile"
    /\ last.fault = [at |-> "remove", k |-> 1, n |-> 0]
    /\ Len(last.chunks) >= 2
    /\ last.err = "nil"
    /\ fs[last.out] = sess.src.data
    /\ ~Exists(fs, last.chunks[2].name)

\* C14: the QR pipeline round trip.  For every input file, FileToQRCodes on
\* a fresh output directory returns no error, the QRCodesToFile that follows
\* returns no error and writes exactly the input's bytes to the output path,
\* and neither call leaves its temp directory behind.
C14_QRRoundTrip ==
    /\ (last.op = "FileToQRCodes" /\ last.err # "failed to open file")
           => last.err = "nil" /\ Join(OutDir, TempWord) \notin dirs
    /\ (/\ last.op = "QRCodesToFile"
        /\ sess.chunks >= MinChunks
        /\ sess.err # "failed to open file"
        /\ sess.edits = <<>>
        /\ sess.merges = 1
        /\ Dir(last.out) \in pre.dirs)
           => /\ last.err = "nil"
              /\ Exists(fs, last.out)
              /\ fs[last.out] = sess.src.data
              /\ Join(OutDir, TempWord) \notin dirs

\* C15: joining works from the QR images alone.  After a successful
\* FileToQRCodes, with the qrcodes directory as it was written and the data
\* directory emptied or removed, QRCodesToFile returns no error and writes
\* the original file's content.
C15_JoinFromImages ==
    (/\ last.op = "QRCodesToFile"
     /\ sess.chunks >= MinChunks
     /\ sess.err = "nil"
     /\ sess.edits = <<"DropData">>
     /\ sess.merges = 1
     /\ Dir(last.out) \in pre.dirs)
        => /\ last.err = "nil"
           /\ Exists(fs, last.out)
           /\ fs[last.out] = sess.src.data

\* the source bytes [i * B, min((i + 1) * B, L)) of the latest SplitFile call,
\* with B = floor(L / C) + 1
SourceRange(i) ==
    LET L == Len(sess.src.data)
        B == L \div sess.chunks + 1
    IN  Slice(sess.src.data, i * B + 1, Min((i + 1) * B, L))

\* the number of chunk files the latest SplitFile call writes
Written ==
    CeilDiv(Len(sess.src.data), Len(sess.src.data) \div sess.chunks + 1)

\* the bytes of chunk file i that follow its header, if it has one
Payload(files, i) ==
    LET p == ExpectedChunk(Base(sess.src.name), i)
    IN  IF i = 0 THEN Drop(files[p], HeaderSize) ELSE files[p]

SplitSucceeded == last.op = "SplitFile" /\ last.err = "nil"

\* C16: with B = floor(L / C) + 1, chunk file i written by a successful
\* SplitFile holds, after the 98-byte header when i = 0, exactly the source
\* bytes [i * B, min((i + 1) * B, L)).
C16_FragmentBytes ==
    SplitSucceeded =>
        \A i \in 0..(Written - 1) :
            /\ Exists(fs, ExpectedChunk(Base(sess.src.name), i))
            /\ Payload(fs, i) = SourceRange(i)

\* five bytes in two chunks: B = 3, the chunks hold 1 2 3 and 4 5
C16_Witness ==
    /\ SplitSucceeded
    /\ sess.chunks = 2
    /\ Len(sess.src.data) = 5
    /\ Payload(fs, 0) = <<1, 2, 3>>
    /\ Payload(fs, 1) = <<4, 5>>

\* the payloads of chunk files 0 .. n-1, concatenated in ordinal order
RECURSIVE Payloads(_, _)
Payloads(files, n) ==
    IF n = 0 THEN <<>> ELSE Payloads(files, n - 1) \o Payload(files, n - 1)

\* C17: the Hash field of the header a successful SplitFile writes is the
\* SHA-256 of the whole source stream, which is the concatenation of the
\* payloads of the chunk files in ordinal order, header bytes excluded.
C17_HashOfStream ==
    SplitSucceeded =>
        LET meta == DecodeMeta(fs[ExpectedChunk(Base(sess.src.name), 0)])
        IN  /\ meta.Hash = Sum256(sess.src.data)
            /\ meta.Hash = Sum256(Payloads(fs, Written))

C17_Witness ==
    /\ SplitSucceeded
    /\ Written = 3
    /\ DecodeMeta(fs[ExpectedChunk(Base(sess.src.name), 0)]).Hash
           = Sum256(sess.src.data)

\* C18: after a successful SplitFile the chunk file of ordinal 0 is the
\* 98-byte encoded header (hash of the stream, requested count, size, time,
\* name) followed by exactly the bytes of the first read, no .tmp file is
\* left in the output directory, and every chunk file of ordinal > 0 holds
\* source bytes only.
C18_HeaderThenFirstChunk ==
    SplitSucceeded =>
        LET first == fs[ExpectedChunk(Base(sess.src.name), 0)]
            meta  == DecodeMeta(Take(first, HeaderSize))
        IN  /\ Len(first) = HeaderSize + Len(SourceRange(0))
            /\ meta.Hash = Sum256(sess.src.data)
            /\ meta.Total = sess.chunks
            /\ meta.Size = Len(sess.src.data)
            /\ meta.Time \in Times
            /\ meta.Name = NameField(Base(sess.src.name))
            /\ Drop(first, HeaderSize) = SourceRange(0)
            /\ \A p \in FilesIn(fs, OutDir) : ~HasSuffix(p, TmpExt)
            /\ \A i \in 1..(Written - 1) :
                   fs[ExpectedChunk(Base(sess.src.name), i)] = SourceRange(i)

C18_Witness ==
    /\ SplitSucceeded
    /\ Written >= 2
    /\ Len(fs[ExpectedChunk(Base(sess.src.name), 0)]) = HeaderSize + 2
    /\ \A p \in FilesIn(fs, OutDir) : ~HasSuffix(p, TmpExt)

\* C19: for every output directory and every source base name, those that
\* contain "part" included, SplitFile writes its first read to
\* <outDir>/<stem>_0000.tmp, and after the call, which succeeds, chunk 0 is
\* the file <outDir>/<stem>_0000.part, another file than the temporary one,
\* which is gone.
C19_TempAndFinalNames ==
    (/\ last.op = "SplitFile"
     /\ sess.chunks >= MinChunks
     /\ Len(sess.src.data) > 0)
        => LET stem == Stem(sess.src.name) \o ChUnderscore \o Pad4(0)
               tmp  == Join(last.out, stem \o TmpExt)
               part == Join(last.out, stem \o PartExt)
           IN  /\ ChunkPath(Base(sess.src.name), last.out, 0) = tmp
               /\ tmp # part
               /\ last.err = "nil"
               /\ Exists(fs, part)
               /\ ~Exists(fs, tmp)

\* C20: every file handle a call opens is closed when the call returns, on
\* every exit path, the error returns of MergeFile (open, seek, copy, close,
\* hash mismatch) included.
C20_HandlesClosed ==
    last.op = "MergeFile" => last.open = {}

\* the path the latest SplitFile call writes read i to: ordinal 0 under its
\* temporary name
WrittenPath(i) == ChunkPath(Base(sess.src.name), OutDir, i)

\* the latest SplitFile call was stopped before it embedded the header
SplitStopped == sess.clean /\ sess.chunks >= MinChunks /\ sess.err # "nil"

\* the directory the latest call started on holds the temporary ordinal-0
\* file and, as chunk files, ordinals of 1 and above only
OnlyTmpFirst ==
    /\ Exists(pre.fs, WrittenPath(0))
    /\ HasSuffix(WrittenPath(0), TmpExt)
    /\ ChunkFiles(pre.fs) # {}
    /\ \A p \in ChunkFiles(pre.fs) : ChunkIndex(Base(p)) >= 1

\* C21: checkFiles never returns a file with the .tmp extension; when a
\* split was stopped before the header was embedded, so that the directory
\* holds the .tmp ordinal-0 file and .part files of ordinals >= 1 only,
\* MergeFile fails with the first-chunk-not-found error, creates no output
\* file and removes nothing.
C21_TmpIsNoChunk ==
    last.op = "MergeFile" =>
        /\ \A k \in DOMAIN last.chunks : ~HasSuffix(last.chunks[k].name, TmpExt)
        /\ SplitStopped /\ sess.merges = 1 /\ OnlyTmpFirst =>
               /\ last.err = "first chunk (index 0) not found"
               /\ last.out = <<>>
               /\ fs = pre.fs

\* killed after the last data read: t_0000.tmp and t_0001.part are on disk
C21_Witness ==
    /\ last.op = "MergeFile"
    /\ sess.err = "killed"
    /\ sess.merges = 1
    /\ OnlyTmpFirst
    /\ last.err = "first chunk (index 0) not found"

\* the latest call is a SplitFile that a failing read or write stopped at
\* read last.fault.k
SplitFailed ==
    /\ last.op = "SplitFile"
    /\ last.fault.at \in {"read", "create", "write"}

\* C22: when read i or the write of chunk i fails, SplitFile returns the
\* error of that operation, no chunk of an ordinal above i is on disk, no
\* header has been embedded (ordinal 0 is still the .tmp file, without a
\* header), and every chunk written for an ordinal below i is on disk with
\* its bytes.
C22_FailureStopsSplit ==
    SplitFailed =>
        LET i == last.fault.k
        IN  /\ last.err = IF last.fault.at = "read" THEN "error reading file"
                          ELSE "failed to write chunk file"
            /\ \A j \in (i + 1)..MaxParts : ~Exists(fs, WrittenPath(j))
            /\ ~Exists(fs, DstName(WrittenPath(0)))
            /\ \A j \in 0..(i - 1) :
                   /\ Exists(fs, WrittenPath(j))
                   /\ fs[WrittenPath(j)] = SourceRange(j)

\* the write of the third chunk fails: the first two are left on disk
C22_Witness ==
    /\ SplitFailed
    /\ last.fault.at = "write"
    /\ last.fault.k = 2
    /\ Exists(fs, WrittenPath(1))

\* the files a SplitFile stopped at read i has left in the directory: the
\* reads before i, and read i itself when its write failed half-way
LeftBy(i) ==
    {WrittenPath(j) : j \in 0..(i - 1)}
        \cup (IF last.fault.at = "write" THEN {WrittenPath(i)} ELSE {})

\* the latest call is the first MergeFile after a SplitFile that succeeded
\* into an empty directory
FirstMerge ==
    /\ last.op = "MergeFile"
    /\ sess.clean /\ sess.err = "nil" /\ sess.merges = 1

\* what a MergeFile stopped at the k-th chunk has copied of that chunk
CopiedOf(k) ==
    IF last.fault.at = "copy" THEN Take(Payload(pre.fs, k - 1), last.fault.n)
    ELSE IF last.fault.at = "close" THEN Payload(pre.fs, k - 1)
    ELSE <<>>

\* C23: SplitFile writes the chunks in increasing ordinal order, chunk i
\* before read i + 1, and embeds the header only after the end of the
\* stream: stopped at read i, it has left exactly the chunks below i and no
\* header.  MergeFile takes the chunks in strictly ascending index order,
\* compares the hashes only after the last chunk is copied and removes
\* chunks only after the comparison: stopped at its k-th chunk, the output
\* holds exactly the chunks before it; on a mismatch the output holds every
\* chunk and no chunk is removed.
C23_Ordering ==
    /\ (last.op = "SplitFile" /\ last.fault # NoFault) =>
           /\ FilesIn(fs, OutDir) = LeftBy(last.fault.k)
           /\ \A j \in 0..(last.fault.k - 1) : fs[WrittenPath(j)] = SourceRange(j)
    /\ (SplitSucceeded /\ sess.clean) =>
           FilesIn(fs, OutDir)
               = {ExpectedChunk(Base(sess.src.name), j) : j \in 0..(Written - 1)}
    /\ FirstMerge =>
           /\ \A k \in DOMAIN last.chunks : last.chunks[k].index = k - 1
           /\ (last.fault.at \in {"open", "seek", "copy", "close"}
                   /\ last.err # "nil") =>
                  /\ fs[last.out]
                         = Payloads(pre.fs, last.fault.k - 1) \o CopiedOf(last.fault.k)
                  /\ ChunkFiles(fs) = ChunkFiles(pre.fs)
           /\ last.err = HashMismatch =>
                  /\ fs[last.out] = Payloads(pre.fs, Written)
                  /\ ChunkFiles(fs) = ChunkFiles(pre.fs)
           /\ last.err = "nil" =>
                  /\ fs[last.out] = Payloads(pre.fs, Written)
                  /\ Sum256(fs[last.out]) = DecodeMeta(
                         pre.fs[ExpectedChunk(Base(sess.src.name), 0)]).Hash

\* a merge of three chunks stopped when it opens the third: the output holds
\* the first two
C23_Witness ==
    /\ FirstMerge
    /\ last.fault = [at |-> "open", k |-> 3, n |-> 0]
    /\ Len(fs[last.out]) > 0
    /\ fs[last.out] = Payloads(pre.fs, 2)

\* C24: the read command recovers the chunk bytes from the QR images
\* FileToQRCodes writes: for each image, readQRCodeFromImage returns the
\* bytes of the chunk the image was made from, so that the read command on
\* those images rebuilds the source file.
C24_ReadRecoversChunks ==
    /\ (last.op = "FileToQRCodes" /\ last.err = "nil") =>
           \A p \in FilesIn(fs, Join(OutDir, QrcodesWord)) :
               /\ readQRCodeFromImage(fs, p).err = "nil"
               /\ readQRCodeFromImage(fs, p).data
                      = fs[Join(Join(OutDir, DataWord), Stem(p) \o DatExt)]
    /\ (last.op = "read" /\ last.arg = 0 /\ sess.err = "nil"
            /\ sess.chunks >= MinChunks /\ sess.merges = 1
            /\ last.out = <<114>>) =>
           /\ last.err = "nil"
           /\ Exists(fs, last.out)
           /\ fs[last.out] = sess.src.data

\* the ordinals of the chunk files the listings are drawn from
ListedOrdinals == {0, 1, 2, 10000}

\* the name a successful SplitFile of a source named stem leaves chunk i
\* under
NameOnDisk(stem, i) == DstName(ChunkPath(stem, OutDir, i))

\* C25: every chunk file SplitFile writes is returned by checkFiles with the
\* ordinal it was written with, ordinals of 10000 and above included.
C25_NamesAgree ==
    last.op = "checkFiles" =>
        \A stem \in {StemT, StemU}, i \in ListedOrdinals :
            Exists(pre.fs, NameOnDisk(stem, i)) =>
                \E k \in DOMAIN last.chunks :
                    last.chunks[k] = [name  |-> NameOnDisk(stem, i),
                                      index |-> i,
                                      first |-> i = 0]

\* C26: SplitFile followed by MergeFile reproduces the file just split
\* whatever the output directory held before: chunk files an earlier
\* SplitFile left there neither fail the merge nor change its output.
C26_LeftoversIgnored ==
    (/\ last.op = "MergeFile"
     /\ sess.chunks >= MinChunks /\ sess.err = "nil" /\ ~sess.clean
     /\ sess.merges = 1) =>
        /\ last.err = "nil"
        /\ Exists(fs, last.out)
        /\ fs[last.out] = sess.src.data

\* C27: in every list checkFiles returns the indices are strictly
\* increasing: no two descriptors share an index and at most one has first
\* set, whatever the directory holds.
C27_IndicesDistinct ==
    last.op = "checkFiles" =>
        /\ \A j, k \in DOMAIN last.chunks :
               j < k => last.chunks[j].index < last.chunks[k].index
        /\ Cardinality({k \in DOMAIN last.chunks : last.chunks[k].first}) <= 1

\* the path MergeFile rebuilds the source of the latest SplitFile call under
RebuiltPath == Join(OutDir, Take(Base(sess.src.name), MaxFilenameLength))

\* the latest call is a second MergeFile, on the directory a successful
\* first one has left: the rebuilt file and none of the chunk files
SecondMerge ==
    /\ last.op = "MergeFile"
    /\ sess.clean /\ sess.err = "nil" /\ sess.merges = 2
    /\ Exists(pre.fs, RebuiltPath)
    /\ pre.fs[RebuiltPath] = sess.src.data
    /\ \A i \in 0..(Written - 1) :
           ~Exists(pre.fs, ExpectedChunk(Base(sess.src.name), i))

\* C28: after a MergeFile that succeeded and removed every chunk file, a
\* second MergeFile on the directory returns the no-chunk-files error and
\* leaves the rebuilt file in place with its content, for every source file
\* name.
C28_SecondMergeFindsNothing ==
    SecondMerge =>
        /\ last.err = "no chunk files found in the specified directory"
        /\ Exists(fs, RebuiltPath)
        /\ fs[RebuiltPath] = sess.src.data

\* C29: whenever a MergeFile invocation returns nil, the output file on disk
\* holds exactly the stream that was split, also when a second invocation
\* runs on the same directory at the same time.
C29_SuccessMeansWholeFile ==
    \A p \in Procs :
        (procs[p].pc = "done" /\ procs[p].err = "nil") =>
            procs[p].found = sess.src.data

\* C30: after successful FileToQRCodes calls into the same output directory,
\* QRCodesToFile rebuilds the file of the latest call: the .dat and .png
\* files of an earlier call neither fail the join nor change its output.
C30_LatestCallWins ==
    (/\ last.op = "QRCodesToFile"
     /\ sess.err = "nil" /\ ~sess.clean /\ sess.chunks >= MinChunks
     /\ sess.merges = 1
     /\ last.out = <<114>>) =>
        /\ last.err = "nil"
        /\ Exists(fs, last.out)
        /\ fs[last.out] = sess.src.data
====
